---- MODULE Spec2Model ----
(***************************************************************************)
(* State model of the id-dss web client: the Pinia session store           *)
(* (stores/session.ts), the course-context view and the objective-analysis *)
(* view with its dirty-tracking of the learning objectives, and the remote *)
(* session service the views talk to.                                      *)
(***************************************************************************)
EXTENDS Integers, Sequences, FiniteSets, TLC

\* ------------------------------------------------------------------ bounds

\* Cap on the total number of entries of the three history lists of the store.
MaxHist == 2

\* Cap on the number of view requests awaiting their response at one time.
MaxInFlight == 1

\* ------------------------------------------------------------------ values

\* JavaScript null / undefined, one per type of value it stands in for: a number,
\* an object, a string.  A text is the sequence of its lines; the empty string is
\* the empty sequence.
NullId == 0

NullObject == [null |-> TRUE]

NullText == <<"null">>

\* Objective texts the user types.
Texts == {<<>>, <<"a">>}

\* The DesignPhase union type.
DesignPhase == {"context", "objective-analysis", "activity-suggestion", "summary"}

\* Ids of the sessions and steps the store operations are driven with.
SessionIds == {1, 2}

StepIds == {1, 2}

\* Ids of the sessions and steps the remote service hands out.
ServerSessionIds == {1}

ServerStepIds == {1}

\* A Session as returned by the remote service.
Session(id, title, level, modality, constraints, objectives) ==
    [id |-> id, course_title |-> title, level |-> level, modality |-> modality,
     constraints |-> constraints, learning_objectives |-> objectives]

\* A CourseContextForm.
CourseContextForm(title, level, modality, constraints, objectives) ==
    [course_title |-> title, level |-> level, modality |-> modality,
     constraints |-> constraints, learning_objectives |-> objectives]

EmptyForm == CourseContextForm("", "", "", <<>>, <<>>)

\* A DesignStep.
DesignStep(id, sid, phase, input) ==
    [id |-> id, session_id |-> sid, phase |-> phase, user_input |-> input]

\* Arguments the store operations are driven with.
SessionArgs ==
    { Session(i, "t1", "undergraduate", "online", NullText, <<"a">>) : i \in SessionIds }

ContextArgs ==
    { CourseContextForm("t1", "undergraduate", "online", <<>>, <<"a">>),
      CourseContextForm("t2", "graduate", "hybrid", <<"c">>, <<>>) }

StepArgs ==
    { DesignStep(i, 1, p, <<"a">>) : i \in StepIds, p \in {"objective-analysis", "activity-suggestion"} }

RecommendationArgs ==
    { [id |-> r[1], step_id |-> r[2], phase |-> "objective-analysis", raw_response |-> "r"] :
        r \in {<<1, 1>>, <<2, 1>>, <<3, 2>>} }

UserActionArgs ==
    { [id |-> 1, step_id |-> 1, recommendation_id |-> NullId, action_type |-> t,
       edited_content |-> NullText, comment |-> NullText] : t \in {"accept"} }

AnalysisArgs == {[improved_objectives |-> <<"**b**">>, parse_error |-> FALSE]}

\* The payload of analyzeObjectives when the AI response could not be parsed:
\* the raw text and the flag, and none of the fields of an analysis.
MalformedAnalysisArgs == {[improved_objectives |-> <<>>, parse_error |-> TRUE]}

\* What getLLMStatus may report.
LLMStatusArgs == {[configured |-> TRUE], [configured |-> FALSE]}

SuggestionArgs == {<<"activity1">>}

\* ------------------------------------------------------------------ store

\* The refs of the store as first constructed.
InitialStore ==
    [currentSession |-> NullObject,
     sessionId |-> NullId,
     courseContext |-> CourseContextForm("", "", "", <<>>, <<>>),
     designSteps |-> <<>>,
     recommendations |-> <<>>,
     userActions |-> <<>>,
     objectiveAnalysis |-> NullObject,
     activitySuggestions |-> <<>>,
     isLoading |-> FALSE,
     isGenerating |-> FALSE,
     currentPhase |-> "context"]

\* Getters.
hasActiveSession(s) == s.sessionId # NullId

RECURSIVE find(_, _, _)
\* Array.prototype.find over steps from index i: the first step of that phase, or undefined.
find(steps, phase, i) ==
    IF i > Len(steps) THEN NullObject
    ELSE IF steps[i].phase = phase THEN steps[i]
    ELSE find(steps, phase, i + 1)

RECURSIVE findLast(_, _, _)
findLast(steps, phase, i) ==
    IF i < 1 THEN NullObject
    ELSE IF steps[i].phase = phase THEN steps[i]
    ELSE findLast(steps, phase, i - 1)

currentStepForPhase_last(s, phase) == findLast(s.designSteps, phase, Len(s.designSteps))

currentStepForPhase(s, phase) == find(s.designSteps, phase, 1)

RECURSIVE filter(_, _)
\* Array.prototype.filter on step_id, order kept.
filter(recs, stepId) ==
    IF recs = <<>> THEN <<>>
    ELSE IF Head(recs).step_id = stepId
         THEN <<Head(recs)>> \o filter(Tail(recs), stepId)
         ELSE filter(Tail(recs), stepId)

\* Only the first recommendation of the step is returned.
recommendationsForStep_first(s, stepId) ==
    LET all == filter(s.recommendations, stepId)
    IN  IF all = <<>> THEN <<>> ELSE <<Head(all)>>

recommendationsForStep(s, stepId) == filter(s.recommendations, stepId)

\* Actions of the store.
\* Setting the session also returns to the first phase.
setSession_phase(s, session) ==
    [s EXCEPT !.currentSession = session, !.sessionId = session.id,
              !.currentPhase = "context"]

setSession_noId(s, session) == [s EXCEPT !.currentSession = session]

setSession(s, session) ==
    [s EXCEPT !.currentSession = session, !.sessionId = session.id]

setCourseContext(s, context) == [s EXCEPT !.courseContext = context]

\* The whole form is replaced by one that holds the objectives only.
updateLearningObjectives_replace(s, objectives) ==
    [s EXCEPT !.courseContext = CourseContextForm("", "", "", <<>>, objectives)]

updateLearningObjectives(s, objectives) ==
    [s EXCEPT !.courseContext.learning_objectives = objectives]

setCurrentPhase(s, phase) == [s EXCEPT !.currentPhase = phase]

\* A phase keeps one step: a step of a phase that has one is not added.
addDesignStep_oncePerPhase(s, step) ==
    IF find(s.designSteps, step.phase, 1) # NullObject THEN s
    ELSE [s EXCEPT !.designSteps = Append(@, step)]

addDesignStep_front(s, step) == [s EXCEPT !.designSteps = <<step>> \o @]

addDesignStep(s, step) == [s EXCEPT !.designSteps = Append(@, step)]

addRecommendation(s, recommendation) ==
    [s EXCEPT !.recommendations = Append(@, recommendation)]

setObjectiveAnalysis(s, analysis) == [s EXCEPT !.objectiveAnalysis = analysis]

setActivitySuggestions(s, suggestions) == [s EXCEPT !.activitySuggestions = suggestions]

addUserAction(s, action) == [s EXCEPT !.userActions = Append(@, action)]

setLoading(s, loading) == [s EXCEPT !.isLoading = loading]

setGenerating(s, generating) == [s EXCEPT !.isGenerating = generating]

resetSession_keepActions(s) ==
    [s EXCEPT !.currentSession = NullObject,
              !.sessionId = NullId,
              !.courseContext = CourseContextForm("", "", "", <<>>, <<>>),
              !.designSteps = <<>>,
              !.recommendations = <<>>,
              !.objectiveAnalysis = NullObject,
              !.activitySuggestions = <<>>,
              !.currentPhase = "context",
              !.isLoading = FALSE,
              !.isGenerating = FALSE]

resetSession(s) ==
    [s EXCEPT !.currentSession = NullObject,
              !.sessionId = NullId,
              !.courseContext = CourseContextForm("", "", "", <<>>, <<>>),
              !.designSteps = <<>>,
              !.recommendations = <<>>,
              !.userActions = <<>>,
              !.objectiveAnalysis = NullObject,
              !.activitySuggestions = <<>>,
              !.currentPhase = "context",
              !.isLoading = FALSE,
              !.isGenerating = FALSE]

\* ------------------------------------------------------------------ texts

\* Lines of a text a user can reach by inserting suggestions below a draft.
MaxLines == 3

RECURSIVE dropBlankHead(_)
dropBlankHead(text) ==
    IF text # <<>> /\ Head(text) = "" THEN dropBlankHead(Tail(text)) ELSE text

RECURSIVE dropBlankTail(_)
dropBlankTail(text) ==
    IF text # <<>> /\ text[Len(text)] = ""
    THEN dropBlankTail(SubSeq(text, 1, Len(text) - 1))
    ELSE text

\* String.prototype.trim on a text whose lines carry no outer blanks.
trim(text) == dropBlankTail(dropBlankHead(text))

\* One line of stripMarkdown: the emphasis markers around a word are removed.
stripMarkdownLine(line) ==
    IF line = "**a**" THEN "a"
    ELSE IF line = "**b**" THEN "b"
    ELSE line

stripMarkdown(text) == trim([i \in 1..Len(text) |-> stripMarkdownLine(text[i])])

\* A leading list marker is removed from one objective line.
normalizeObjectiveLine(line) ==
    IF line = "- a" THEN "a"
    ELSE IF line = "- b" THEN "b"
    ELSE line

RECURSIVE nonBlank(_)
nonBlank(lines) ==
    IF lines = <<>> THEN <<>>
    ELSE IF Head(lines) = "" THEN nonBlank(Tail(lines))
    ELSE <<Head(lines)>> \o nonBlank(Tail(lines))

parseObjectivesText(text) ==
    nonBlank([i \in 1..Len(trim(text)) |-> normalizeObjectiveLine(trim(text)[i])])

joinObjectives(lines) ==
    nonBlank([i \in 1..Len(lines) |-> normalizeObjectiveLine(lines[i])])

\* val || '' of a string that may be null.
orEmpty(text) == IF text = NullText THEN <<>> ELSE text

\* val || undefined of a string: the empty string is left out of a request body.
orUndefined(text) == IF text = <<>> THEN NullText ELSE text

\* ------------------------------------------------------------- remote service

\* Texts the remote service may store in place of the one sent, when it
\* normalises the objectives.
NormalizedTexts == {<<"a">>}

\* What the service stores, and returns, for objectives it is sent.
ServerStores(sent) ==
    {sent} \cup NormalizedTexts \cup (IF sent = <<>> THEN {NullText} ELSE {})

InitialServer ==
    [sessions |-> [i \in ServerSessionIds |-> NullObject], steps |-> 0]

FreeSessionIds(srv) == { i \in DOMAIN srv.sessions : srv.sessions[i] = NullObject }

NextSessionId(srv) ==
    CHOOSE i \in FreeSessionIds(srv) : \A j \in FreeSessionIds(srv) : i <= j

\* POST /sessions/ : the session created from a request body.
createSession(srv, data, objectives) ==
    Session(NextSessionId(srv), data.course_title, data.level, data.modality,
            data.constraints, objectives)

\* PATCH /sessions/{id} : the fields present in the body replace the stored ones.
updateSession(srv, sessionId, data, objectives) ==
    [srv.sessions[sessionId] EXCEPT
        !.course_title = IF data.course_title = "" THEN @ ELSE data.course_title,
        !.level = IF data.level = "" THEN @ ELSE data.level,
        !.modality = IF data.modality = "" THEN @ ELSE data.modality,
        !.constraints = IF data.constraints = NullText THEN @ ELSE data.constraints,
        !.learning_objectives =
            IF data.learning_objectives = NullText THEN @ ELSE objectives]

\* A partial body that carries the learning objectives only.
ObjectivesPatch(text) ==
    [course_title |-> "", level |-> "", modality |-> "", constraints |-> NullText,
     learning_objectives |-> text]

\* ------------------------------------------------------- course-context view

InitialContextView ==
    [form |-> CourseContextForm("", "", "", <<>>, <<>>),
     isSubmitting |-> FALSE,
     errorMessage |-> ""]

hasExistingSession(s) == hasActiveSession(s) /\ s.sessionId # NullId

\* onMounted and the objectivesLines watcher of the course-context view.
mountContextView(s) ==
    LET prefilled == IF hasExistingSession(s) THEN s.courseContext
                     ELSE InitialContextView.form
    IN  [InitialContextView EXCEPT
            !.form = [prefilled EXCEPT
                !.learning_objectives =
                    joinObjectives(parseObjectivesText(prefilled.learning_objectives))]]

\* Forms a user fills in.
FormArgs ==
    { CourseContextForm("t1", "undergraduate", "online", <<>>, <<"a">>),
      CourseContextForm("t1", "undergraduate", "online", <<>>, <<>>) }

SubmitBody(form) ==
    [course_title |-> form.course_title,
     level |-> form.level,
     modality |-> form.modality,
     constraints |-> orUndefined(form.constraints),
     learning_objectives |-> orUndefined(form.learning_objectives)]

\* ---------------------------------------------------- objective-analysis view

InitialAnalysisView ==
    [isAnalyzing |-> FALSE,
     analysisResult |-> NullObject,
     stepId |-> NullId,
     recommendationId |-> NullId,
     errorMessage |-> "",
     objectivesDraft |-> <<>>,
     lastSavedObjectives |-> <<>>,
     hasSavedBaseline |-> FALSE,
     successMessage |-> "",
     isSaving |-> FALSE,
     llmStatus |-> NullObject,
     probing |-> FALSE]

hasObjectives(v) == trim(v.objectivesDraft) # <<>>

isDirty(v) == orEmpty(v.objectivesDraft) # orEmpty(v.lastSavedObjectives)

\* The watcher overwrites the draft whether or not it is dirty.
watchObjectives_clobber(v, val) ==
    IF ~v.hasSavedBaseline
    THEN [v EXCEPT !.objectivesDraft = orEmpty(val),
                   !.lastSavedObjectives = orEmpty(val),
                   !.hasSavedBaseline = TRUE]
    ELSE [v EXCEPT !.objectivesDraft = orEmpty(val)]

\* The callback of the watcher on the store's learning objectives.
watchObjectives(v, val) ==
    IF ~v.hasSavedBaseline
    THEN [v EXCEPT !.objectivesDraft = orEmpty(val),
                   !.lastSavedObjectives = orEmpty(val),
                   !.hasSavedBaseline = TRUE]
    ELSE IF ~isDirty(v)
         THEN [v EXCEPT !.objectivesDraft = orEmpty(val)]
         ELSE v

\* The watcher runs when the watched value has changed since it last ran.
flushWatcher(v, before, after) ==
    IF after.courseContext.learning_objectives # before.courseContext.learning_objectives
    THEN watchObjectives(v, after.courseContext.learning_objectives)
    ELSE v

\* Setup of the view: the watcher runs at once (immediate).
mountAnalysisView(s) ==
    watchObjectives([InitialAnalysisView EXCEPT !.probing = TRUE],
                    s.courseContext.learning_objectives)

\* onMounted after getLLMStatus has resolved, or was rejected (logged only).
onMountedResolved(v, status) == [v EXCEPT !.llmStatus = status, !.probing = FALSE]

onMountedCatch(v) == [v EXCEPT !.probing = FALSE]

\* The :disabled bindings of the Save and Run Analysis buttons, negated.
saveEnabled(s, v) == s.sessionId # NullId /\ ~v.isSaving /\ isDirty(v)

runEnabled(v) ==
    /\ ~v.isAnalyzing
    /\ hasObjectives(v)
    /\ ~(v.llmStatus # NullObject /\ v.llmStatus.configured = FALSE)

getImprovedObjectivesText(v) ==
    IF v.analysisResult = NullObject THEN <<>>
    ELSE v.analysisResult.improved_objectives

\* runAnalysis raises the flag of the save as well.
runAnalysisBegin_saving(v) ==
    [v EXCEPT !.isAnalyzing = TRUE, !.isSaving = TRUE, !.errorMessage = "",
              !.successMessage = ""]

\* runAnalysis up to its first await.
runAnalysisBegin(v) ==
    [v EXCEPT !.isAnalyzing = TRUE, !.errorMessage = "", !.successMessage = ""]

\* The baseline is set to the text that was sent.
runAnalysisSaved_sent(v, sent) ==
    [v EXCEPT !.lastSavedObjectives = sent]

\* runAnalysis after its updateSession call, which sent the draft of that time,
\* resolved: the baseline is the draft as it is now.
runAnalysisSaved(v, sent) ==
    [v EXCEPT !.lastSavedObjectives = v.objectivesDraft]

\* runAnalysis after analyzeObjectives resolved.
runAnalysisResolved(v, result) ==
    [v EXCEPT !.stepId = result.step_id,
              !.recommendationId = result.recommendation_id,
              !.analysisResult = result.data,
              !.isAnalyzing = FALSE]

\* runAnalysis after analyzeObjectives was rejected.
runAnalysisCatch(v, detail) ==
    [v EXCEPT !.errorMessage = detail, !.isAnalyzing = FALSE]

\* persistObjectives after its updateSession call resolved.
persistObjectivesResolved(v, session, updated) ==
    [v EXCEPT !.lastSavedObjectives =
        IF session.learning_objectives # NullText
        THEN session.learning_objectives
        ELSE updated]

saveObjectivesBegin(v) ==
    [v EXCEPT !.isSaving = TRUE, !.errorMessage = "", !.successMessage = ""]

saveObjectivesDone(v) ==
    [v EXCEPT !.successMessage = "Saved.", !.isSaving = FALSE]

\* The failed save also moves the baseline to the draft.
saveObjectivesCatch_baseline(v) ==
    [v EXCEPT !.errorMessage = "Save failed. Please try again.",
              !.isSaving = FALSE,
              !.lastSavedObjectives = v.objectivesDraft]

saveObjectivesCatch(v) ==
    [v EXCEPT !.errorMessage = "Save failed. Please try again.", !.isSaving = FALSE]

insertedText(v) ==
    LET improved == stripMarkdown(getImprovedObjectivesText(v))
        base == trim(v.objectivesDraft)
    IN  IF base # <<>> THEN base \o <<"">> \o improved ELSE improved

insertImprovedObjectivesBegin(v) ==
    [v EXCEPT !.objectivesDraft = insertedText(v),
              !.successMessage = "Inserted improved objectives below your original text."]

replaceWithImprovedObjectivesBegin(v) ==
    [v EXCEPT !.objectivesDraft = stripMarkdown(getImprovedObjectivesText(v)),
              !.successMessage =
                "Applied improved objectives. You can edit further and re-run analysis."]

\* --------------------------------------------------- activity-suggestion view

InitialActivityView ==
    [isGenerating |-> FALSE,
     stepId |-> NullId,
     recommendationId |-> NullId,
     errorMessage |-> "",
     activities |-> <<>>,
     hydrating |-> FALSE]

\* Setup of the view: onMounted awaits the LLM status before it hydrates.
mountActivityView == [InitialActivityView EXCEPT !.hydrating = TRUE]

\* The activities as the view lists them: an id from the index, status pending.
displayed(list) ==
    [i \in 1..Len(list) |->
        [id |-> i - 1, title |-> list[i], status |-> "pending", draft |-> NullObject]]

\* onMounted after getLLMStatus settled: activities of an earlier run are shown.
hydrateActivities(v, s) ==
    [v EXCEPT !.hydrating = FALSE,
              !.activities = IF s.activitySuggestions # <<>>
                             THEN displayed(s.activitySuggestions) ELSE @]

\* The activities of a response with the markdown removed.
cleanedList(data) == [i \in 1..Len(data.activities) |-> stripMarkdownLine(data.activities[i])]

\* generateSuggestions up to its await.
generateSuggestionsBegin(v) ==
    [v EXCEPT !.isGenerating = TRUE, !.errorMessage = "", !.activities = <<>>]

\* generateSuggestions after suggestActivities resolved, as far as the view goes.
generateSuggestionsResolved(v, result) ==
    [v EXCEPT !.stepId = result.step_id,
              !.recommendationId = result.recommendation_id,
              !.activities = displayed(cleanedList(result.data)),
              !.errorMessage =
                  IF cleanedList(result.data) # <<>> THEN @
                  ELSE IF result.data.parse_error
                       THEN "The AI response could not be parsed as valid JSON. Try again, or adjust the prompt/model."
                       ELSE "No activities were returned. Try generating again, or refine your objectives.",
              !.isGenerating = FALSE]

\* generateSuggestions after suggestActivities was rejected.
generateSuggestionsCatch(v, detail) ==
    [v EXCEPT !.errorMessage = detail, !.isGenerating = FALSE]

\* The handlers of the buttons of one activity, as far as the view goes; the
\* activity with id is the one at index id + 1.
acceptActivity(v, id) == [v EXCEPT !.activities[id + 1].status = "accepted"]

rejectActivity(v, id) == [v EXCEPT !.activities[id + 1].status = "rejected"]

editActivity(v, id) ==
    [v EXCEPT !.activities[id + 1].status = "editing",
              !.activities[id + 1].draft = [title |-> v.activities[id + 1].title]]

saveEdits(v, id) ==
    [v EXCEPT !.activities[id + 1].title = v.activities[id + 1].draft.title,
              !.activities[id + 1].status = "pending",
              !.activities[id + 1].draft = NullObject]

cancelEdits(v, id) ==
    [v EXCEPT !.activities[id + 1].status = "pending",
              !.activities[id + 1].draft = NullObject]

\* The activities without the fields only the view has.
withoutViewFields(list) == [i \in 1..Len(list) |-> list[i].title]

\* ------------------------------------------------------ objects and references

\* Addresses of form objects: the caller's reactive form, and two for the object
\* the store's courseContext ref points to (the one it drops is reused).
CallerForm == 1

StoreForms == {2, 3}

InitialObjects ==
    [heap |-> [a \in {CallerForm} \cup StoreForms |-> EmptyForm],
     courseContext |-> 2]

\* ------------------------------------------------------------- summary view

InitialSummaryView ==
    [isExporting |-> FALSE,
     isLoadingData |-> FALSE,
     exportData |-> NullObject,
     errorMessage |-> ""]

\* No text has been handed to stripMarkdown.
InitialMarkdown == [tokens |-> <<>>, input |-> <<>>, output |-> <<>>, done |-> FALSE]

\* ------------------------------------------------------------------ state

VARIABLES
    store,          \* the session store
    server,         \* the sessions the remote service holds, and its step counter
    route,          \* the route whose view is mounted
    contextView,    \* refs of the mounted course-context view
    analysisView,   \* refs of the mounted objective-analysis view
    inflight,       \* handler invocations suspended at an await, in issue order
    lastOp,         \* the operation or handler step taken last
    lastReply,      \* the learning objectives returned by the service in that step
    previous,       \* what the analysis view looked at before the views' last step
    activityView,   \* refs of the mounted activity-suggestion view
    generated,      \* AI requests that have succeeded since the last reset
    objects,        \* the form object of a caller and the one the store refers to
    summaryView,    \* refs of the mounted summary view
    markdown        \* a text handed to stripMarkdown, and what it returned

vars ==
    <<store, server, route, contextView, analysisView, inflight, lastOp, lastReply,
      previous, activityView, generated, objects, summaryView, markdown>>

viewVars ==
    <<server, route, contextView, analysisView, inflight, lastReply, previous,
      activityView, generated, objects, summaryView, markdown>>

NoReply == <<"no reply">>

InitialSnapshot ==
    [objectives |-> <<>>, dirty |-> FALSE, raced |-> FALSE, activities |-> <<>>]

\* The store's learning objectives, the dirtiness of the draft and whether a
\* generation in flight has seen another one succeed, as they are now.
Snapshot ==
    [objectives |-> store.courseContext.learning_objectives,
     dirty |-> isDirty(analysisView),
     raced |-> \E i \in 1..Len(inflight) : inflight[i].raced,
     activities |-> activityView.activities]

HistLen(s) == Len(s.designSteps) + Len(s.recommendations) + Len(s.userActions)

\* ------------------------------------------------------ the store on its own

ViewsIdle ==
    /\ server = InitialServer
    /\ route = "/new-session"
    /\ contextView = InitialContextView
    /\ analysisView = InitialAnalysisView
    /\ inflight = <<>>
    /\ lastReply = NoReply
    /\ previous = InitialSnapshot
    /\ activityView = InitialActivityView
    /\ generated = 0
    /\ objects = InitialObjects
    /\ summaryView = InitialSummaryView
    /\ markdown = InitialMarkdown

StoreInit ==
    /\ store = InitialStore
    /\ lastOp = "init"
    /\ ViewsIdle

StoreSetSession ==
    \E session \in SessionArgs :
        /\ store' = setSession(store, session)
        /\ lastOp' = "setSession"
        /\ UNCHANGED viewVars

StoreSetCourseContext ==
    \E context \in ContextArgs :
        /\ store' = setCourseContext(store, context)
        /\ lastOp' = "setCourseContext"
        /\ UNCHANGED viewVars

StoreUpdateLearningObjectives ==
    \E objectives \in {<<>>, <<"b">>} :
        /\ store' = updateLearningObjectives(store, objectives)
        /\ lastOp' = "updateLearningObjectives"
        /\ UNCHANGED viewVars

StoreSetCurrentPhase ==
    \E phase \in DesignPhase :
        /\ store' = setCurrentPhase(store, phase)
        /\ lastOp' = "setCurrentPhase"
        /\ UNCHANGED viewVars

StoreAddDesignStep ==
    \E step \in StepArgs :
        /\ HistLen(store) < MaxHist
        /\ store' = addDesignStep(store, step)
        /\ lastOp' = "addDesignStep"
        /\ UNCHANGED viewVars

StoreAddRecommendation ==
    \E recommendation \in RecommendationArgs :
        /\ HistLen(store) < MaxHist
        /\ store' = addRecommendation(store, recommendation)
        /\ lastOp' = "addRecommendation"
        /\ UNCHANGED viewVars

StoreSetObjectiveAnalysis ==
    \E analysis \in AnalysisArgs :
        /\ store' = setObjectiveAnalysis(store, analysis)
        /\ lastOp' = "setObjectiveAnalysis"
        /\ UNCHANGED viewVars

StoreSetActivitySuggestions ==
    \E suggestions \in SuggestionArgs :
        /\ store' = setActivitySuggestions(store, suggestions)
        /\ lastOp' = "setActivitySuggestions"
        /\ UNCHANGED viewVars

StoreAddUserAction ==
    \E action \in UserActionArgs :
        /\ HistLen(store) < MaxHist
        /\ store' = addUserAction(store, action)
        /\ lastOp' = "addUserAction"
        /\ UNCHANGED viewVars

StoreSetLoading ==
    \E loading \in BOOLEAN :
        /\ store' = setLoading(store, loading)
        /\ lastOp' = "setLoading"
        /\ UNCHANGED viewVars

StoreSetGenerating ==
    \E generating \in BOOLEAN :
        /\ store' = setGenerating(store, generating)
        /\ lastOp' = "setGenerating"
        /\ UNCHANGED viewVars

StoreResetSession ==
    /\ store' = resetSession(store)
    /\ lastOp' = "resetSession"
    /\ UNCHANGED viewVars

StoreNext ==
    \/ StoreSetSession
    \/ StoreSetCourseContext
    \/ StoreUpdateLearningObjectives
    \/ StoreSetCurrentPhase
    \/ StoreAddDesignStep
    \/ StoreAddRecommendation
    \/ StoreSetObjectiveAnalysis
    \/ StoreSetActivitySuggestions
    \/ StoreAddUserAction
    \/ StoreSetLoading
    \/ StoreSetGenerating
    \/ StoreResetSession

SpecStore == StoreInit /\ [][StoreNext]_vars

\* ------------------------------------------------------------ the application

ContextOps == {"handleSubmit"}

PersistOps == {"saveObjectives", "insertImprovedObjectives", "replaceWithImprovedObjectives"}

AnalysisOps == PersistOps \cup {"runAnalysis"}

ActivityOps == {"generateSuggestions"}

\* The handlers of the activity view that record a user decision.
DecisionOps == {"acceptActivity", "rejectActivity", "saveEdits", "regenerateActivity"}

SummaryOps == {"loadExportData", "handleExport", "handleExportPdf"}

\* A handler invocation suspended at the await of the call named by pc.  sid and
\* sent are the arguments of that call; ctx holds what the rest of the handler
\* still reads from its view once that view is unmounted.
Task(op, pc, sid, sent) ==
    [op |-> op, pc |-> pc, live |-> TRUE, sid |-> sid, sent |-> sent, ctx |-> NullObject,
     raced |-> FALSE]

Remove(tasks, i) == SubSeq(tasks, 1, i - 1) \o SubSeq(tasks, i + 1, Len(tasks))

\* What the suspended handlers of an analysis view read from it later on.
AnalysisCapture(op, v) ==
    IF op = "runAnalysis"
    THEN [objectivesDraft |-> v.objectivesDraft, stepId |-> NullId]
    ELSE [objectivesDraft |-> <<>>, stepId |-> v.stepId]

\* The views of ops are unmounted: their suspended handlers keep the old refs.
Unmounted(tasks, ops, cv, av) ==
    [i \in 1..Len(tasks) |->
        IF tasks[i].live /\ tasks[i].op \in ops
        THEN [tasks[i] EXCEPT
                !.live = FALSE,
                !.ctx = IF tasks[i].op \in ContextOps THEN cv.form
                        ELSE IF tasks[i].op \notin AnalysisOps THEN NullObject
                        ELSE AnalysisCapture(tasks[i].op, av)]
        ELSE tasks[i]]

OnContext == route = "/new-session"

OnAnalysis == route = "/objective-analysis"

Creating(tasks) == { i \in 1..Len(tasks) : tasks[i].pc = "createSession" }

\* A generation has succeeded while the generations of tasks were in flight:
\* they are marked as having been in flight together with one that succeeded.
Raced(tasks) ==
    [i \in 1..Len(tasks) |->
        IF tasks[i].op \in {"runAnalysis", "generateSuggestions"}
        THEN [tasks[i] EXCEPT !.raced = TRUE]
        ELSE tasks[i]]

\* The invocations that will ask, or have asked, the service for a generation.
Generating(tasks) ==
    { i \in 1..Len(tasks) : tasks[i].op \in {"runAnalysis", "generateSuggestions"} }

OnActivity == route = "/activity-suggestion"

Init ==
    /\ store = InitialStore
    /\ server = InitialServer
    /\ route = "/new-session"
    /\ contextView = mountContextView(InitialStore)
    /\ analysisView = InitialAnalysisView
    /\ inflight = <<>>
    /\ lastOp = "init"
    /\ lastReply = NoReply
    /\ previous = InitialSnapshot
    /\ activityView = InitialActivityView
    /\ generated = 0
    /\ objects = InitialObjects
    /\ summaryView = InitialSummaryView
    /\ markdown = InitialMarkdown

\* The user fills in the course-context form.
EditForm ==
    \E form \in FormArgs :
        /\ OnContext
        /\ form # contextView.form
        /\ contextView' = [contextView EXCEPT !.form = form]
        /\ previous' = Snapshot
        /\ UNCHANGED <<activityView, generated, objects, summaryView, markdown>>
        /\ lastOp' = "editForm"
        /\ lastReply' = NoReply
        /\ UNCHANGED <<store, server, route, analysisView, inflight>>

\* handleSubmit with a required field missing.
HandleSubmitInvalid ==
    /\ OnContext
    /\ ~contextView.isSubmitting
    /\ \/ contextView.form.course_title = ""
       \/ contextView.form.level = ""
       \/ contextView.form.modality = ""
    /\ contextView' =
         [contextView EXCEPT !.errorMessage = "Please fill in all required fields."]
    /\ previous' = Snapshot
    /\ UNCHANGED <<activityView, generated, objects, summaryView, markdown>>
    /\ lastOp' = "handleSubmit:invalid"
    /\ lastReply' = NoReply
    /\ UNCHANGED <<store, server, route, analysisView, inflight>>

\* handleSubmit up to its await of createSession or updateSession, with fewer
\* than limit handler invocations suspended.
HandleSubmitWithin(limit) ==
    /\ OnContext
    /\ ~contextView.isSubmitting
    /\ contextView.form.course_title # ""
    /\ contextView.form.level # ""
    /\ contextView.form.modality # ""
    /\ Len(inflight) < limit
    /\ hasExistingSession(store)
         \/ Cardinality(Creating(inflight)) < Cardinality(FreeSessionIds(server))
    /\ contextView' = [contextView EXCEPT !.isSubmitting = TRUE, !.errorMessage = ""]
    /\ inflight' = Append(inflight,
         Task("handleSubmit",
              IF hasExistingSession(store) THEN "updateSession" ELSE "createSession",
              store.sessionId, SubmitBody(contextView.form)))
    /\ previous' = Snapshot
    /\ UNCHANGED <<activityView, generated, objects, summaryView, markdown>>
    /\ lastOp' = "handleSubmit"
    /\ lastReply' = NoReply
    /\ UNCHANGED <<store, server, route, analysisView>>

HandleSubmit == HandleSubmitWithin(MaxInFlight)

\* The session call of handleSubmit resolves: the rest of the try block runs.
HandleSubmitResolved ==
    \E i \in 1..Len(inflight) :
      LET task == inflight[i] IN
      /\ task.op = "handleSubmit"
      /\ \E objectives \in
            IF task.sent.learning_objectives = NullText THEN {NullText}
            ELSE ServerStores(task.sent.learning_objectives) :
          LET session == IF task.pc = "createSession"
                         THEN createSession(server, task.sent, objectives)
                         ELSE updateSession(server, task.sid, task.sent, objectives)
              form == IF task.live THEN contextView.form ELSE task.ctx
              after == setCurrentPhase(
                         setCourseContext(setSession(store, session), form),
                         "objective-analysis")
              rest == Remove(inflight, i)
          IN  /\ server' = [server EXCEPT !.sessions[session.id] = session]
              /\ store' = after
              /\ route' = "/objective-analysis"
              /\ contextView' = InitialContextView
              /\ IF OnAnalysis
                 THEN /\ analysisView' = flushWatcher(analysisView, store, after)
                      /\ inflight' = rest
                 ELSE /\ analysisView' = mountAnalysisView(after)
                      /\ inflight' = Unmounted(rest, ContextOps \cup ActivityOps \cup SummaryOps,
                                               contextView, analysisView)
              /\ activityView' = InitialActivityView
              /\ summaryView' = InitialSummaryView
              /\ previous' = Snapshot
              /\ UNCHANGED <<generated, objects, markdown>>
              /\ lastOp' = "handleSubmit:resolved"
              /\ lastReply' = session.learning_objectives

\* The session call of handleSubmit is rejected: the catch block runs.
HandleSubmitRejected ==
    \E i \in 1..Len(inflight) :
      LET task == inflight[i] IN
      /\ task.op = "handleSubmit"
      /\ contextView' =
           IF task.live
           THEN [contextView EXCEPT
                    !.errorMessage = "Failed to create session. Please try again.",
                    !.isSubmitting = FALSE]
           ELSE contextView
      /\ inflight' = Remove(inflight, i)
      /\ previous' = Snapshot
      /\ UNCHANGED <<activityView, generated, objects, summaryView, markdown>>
      /\ lastOp' = "handleSubmit:rejected"
      /\ lastReply' = NoReply
      /\ UNCHANGED <<store, server, route, analysisView>>

\* The sidebar (or the Back button) leads from the analysis to the context view.
NavigateToContext ==
    /\ OnAnalysis
    /\ route' = "/new-session"
    /\ inflight' = Unmounted(inflight, AnalysisOps, contextView, analysisView)
    /\ analysisView' = InitialAnalysisView
    /\ contextView' = mountContextView(store)
    /\ previous' = Snapshot
    /\ UNCHANGED <<activityView, generated, objects, summaryView, markdown>>
    /\ lastOp' = "navigate:/new-session"
    /\ lastReply' = NoReply
    /\ UNCHANGED <<store, server>>

\* The sidebar leads from the context view to the analysis view; without an
\* active session the step is not accessible.
NavigateToAnalysis ==
    /\ OnContext
    /\ hasActiveSession(store)
    /\ route' = "/objective-analysis"
    /\ inflight' = Unmounted(inflight, ContextOps, contextView, analysisView)
    /\ contextView' = InitialContextView
    /\ analysisView' = mountAnalysisView(store)
    /\ previous' = Snapshot
    /\ UNCHANGED <<activityView, generated, objects, summaryView, markdown>>
    /\ lastOp' = "navigate:/objective-analysis"
    /\ lastReply' = NoReply
    /\ UNCHANGED <<store, server>>

\* startNewSession of the header: reset the store and go to the context view.
StartNewSession ==
    /\ hasActiveSession(store)
    /\ store' = resetSession(store)
    /\ route' = "/new-session"
    /\ inflight' = Unmounted(inflight, AnalysisOps \cup ActivityOps \cup SummaryOps,
                             contextView, analysisView)
    /\ analysisView' = InitialAnalysisView
    /\ contextView' = IF OnContext THEN contextView
                      ELSE mountContextView(resetSession(store))
    /\ previous' = Snapshot
    /\ activityView' = InitialActivityView
    /\ summaryView' = InitialSummaryView
    /\ generated' = 0
    /\ UNCHANGED <<objects, markdown>>
    /\ lastOp' = "startNewSession"
    /\ lastReply' = NoReply
    /\ UNCHANGED server

\* The user types in the objectives textarea.
EditDraft ==
    \E text \in Texts :
        /\ OnAnalysis
        /\ text # analysisView.objectivesDraft
        /\ analysisView' = [analysisView EXCEPT !.objectivesDraft = text]
        /\ previous' = Snapshot
        /\ UNCHANGED <<activityView, generated, objects, summaryView, markdown>>
        /\ lastOp' = "editDraft"
        /\ lastReply' = NoReply
        /\ UNCHANGED <<store, server, route, contextView, inflight>>

\* persistObjectives up to its await of updateSession, entered from a handler
\* that has brought the view to v.
PersistObjectivesBegin(op, v, updated) ==
    LET after == updateLearningObjectives(store, updated) IN
    /\ store' = after
    /\ analysisView' = flushWatcher(v, store, after)
    /\ inflight' = Append(inflight, Task(op, "updateSession", store.sessionId, updated))
    /\ previous' = Snapshot
    /\ UNCHANGED <<activityView, generated, objects, summaryView, markdown>>
    /\ lastOp' = op
    /\ lastReply' = NoReply
    /\ UNCHANGED <<server, route, contextView>>

\* The Save button: saveObjectives up to the await inside persistObjectives.
SaveObjectivesWithin(limit) ==
    /\ OnAnalysis
    /\ saveEnabled(store, analysisView)
    /\ Len(inflight) < limit
    /\ PersistObjectivesBegin("saveObjectives", saveObjectivesBegin(analysisView),
                              analysisView.objectivesDraft)

SaveObjectives == SaveObjectivesWithin(MaxInFlight)

\* The Insert below button.
InsertImprovedObjectives ==
    /\ OnAnalysis
    /\ store.sessionId # NullId
    /\ getImprovedObjectivesText(analysisView) # <<>>
    /\ Len(insertedText(analysisView)) <= MaxLines
    /\ Len(inflight) < MaxInFlight
    /\ PersistObjectivesBegin("insertImprovedObjectives",
                              insertImprovedObjectivesBegin(analysisView),
                              insertedText(analysisView))

\* The Replace button.
ReplaceWithImprovedObjectives ==
    /\ OnAnalysis
    /\ store.sessionId # NullId
    /\ getImprovedObjectivesText(analysisView) # <<>>
    /\ Len(inflight) < MaxInFlight
    /\ PersistObjectivesBegin("replaceWithImprovedObjectives",
                              replaceWithImprovedObjectivesBegin(analysisView),
                              stripMarkdown(getImprovedObjectivesText(analysisView)))

\* The Run Analysis button: runAnalysis up to its await of updateSession, with
\* fewer than limit invocations suspended and fewer than steps generations.
RunAnalysisWithin(limit, steps) ==
    /\ OnAnalysis
    /\ runEnabled(analysisView)
    /\ store.sessionId # NullId
    /\ Len(inflight) < limit
    /\ server.steps + Cardinality(Generating(inflight)) < steps
    /\ LET after == updateLearningObjectives(store, analysisView.objectivesDraft) IN
       /\ store' = after
       /\ analysisView' = flushWatcher(runAnalysisBegin(analysisView), store, after)
       /\ inflight' = Append(inflight,
            Task("runAnalysis", "updateSession", store.sessionId,
                 analysisView.objectivesDraft))
    /\ previous' = Snapshot
    /\ UNCHANGED <<activityView, generated, objects, summaryView, markdown>>
    /\ lastOp' = "runAnalysis"
    /\ lastReply' = NoReply
    /\ UNCHANGED <<server, route, contextView>>

RunAnalysis == RunAnalysisWithin(MaxInFlight, Cardinality(ServerStepIds))

\* The handler of a task goes on to its next call, or ends.
Continue(i, task, next) ==
    inflight' = IF next = "done" THEN Remove(inflight, i)
                ELSE [inflight EXCEPT ![i] = [task EXCEPT !.pc = next]]

\* What the task reads as objectivesDraft / stepId of its view.
DraftOf(task) == IF task.live THEN analysisView.objectivesDraft ELSE task.ctx.objectivesDraft

StepIdOf(task) == IF task.live THEN analysisView.stepId ELSE task.ctx.stepId

\* updateSession of persistObjectives resolves (Save, Insert below, Replace).
PersistResolved ==
    \E i \in 1..Len(inflight) :
      LET task == inflight[i] IN
      /\ task.op \in PersistOps
      /\ task.pc = "updateSession"
      /\ \E objectives \in ServerStores(task.sent) :
          LET session == updateSession(server, task.sid, ObjectivesPatch(task.sent),
                                       objectives)
              saved == persistObjectivesResolved(analysisView, session, task.sent)
              next == IF StepIdOf(task) # NullId THEN "createAction" ELSE "done"
          IN  /\ server' = [server EXCEPT !.sessions[task.sid] = session]
              /\ analysisView' =
                    IF ~task.live THEN analysisView
                    ELSE IF next = "done" /\ task.op = "saveObjectives"
                         THEN saveObjectivesDone(saved)
                         ELSE saved
              /\ Continue(i, task, next)
              /\ previous' = Snapshot
              /\ UNCHANGED <<activityView, generated, objects, summaryView, markdown>>
              /\ lastOp' = IF task.live THEN "persistObjectives:resolved"
                           ELSE "unmounted:resolved"
              /\ lastReply' = session.learning_objectives
      /\ UNCHANGED <<store, route, contextView>>

\* updateSession of persistObjectives is rejected: saveObjectives catches it, the
\* insert and replace handlers do not.
PersistRejected ==
    \E i \in 1..Len(inflight) :
      LET task == inflight[i] IN
      /\ task.op \in PersistOps
      /\ task.pc = "updateSession"
      /\ analysisView' =
            IF task.live /\ task.op = "saveObjectives"
            THEN saveObjectivesCatch(analysisView)
            ELSE analysisView
      /\ inflight' = Remove(inflight, i)
      /\ previous' = Snapshot
      /\ UNCHANGED <<activityView, generated, objects, summaryView, markdown>>
      /\ lastOp' = IF task.live THEN task.op \o ":rejected" ELSE "unmounted:rejected"
      /\ lastReply' = NoReply
      /\ UNCHANGED <<store, server, route, contextView>>

\* createAction of persistObjectives settles; its failure is swallowed.
CreateActionSettled ==
    \E i \in 1..Len(inflight) :
      LET task == inflight[i] IN
      /\ task.pc = "createAction"
      /\ analysisView' =
            IF task.live /\ task.op = "saveObjectives"
            THEN saveObjectivesDone(analysisView)
            ELSE analysisView
      /\ inflight' = Remove(inflight, i)
      /\ previous' = Snapshot
      /\ UNCHANGED <<activityView, generated, objects, summaryView, markdown>>
      /\ lastOp' = "createAction:settled"
      /\ lastReply' = NoReply
      /\ UNCHANGED <<store, server, route, contextView>>

\* runAnalysis goes on to analyzeObjectives with the session id and the draft of
\* that moment.
AnalyzeCall(i, task) ==
    inflight' = [inflight EXCEPT ![i] =
        [task EXCEPT !.pc = "analyzeObjectives",
                     !.sid = store.sessionId,
                     !.sent = DraftOf(task)]]

\* updateSession of runAnalysis resolves.
AnalysisSaveResolved ==
    \E i \in 1..Len(inflight) :
      LET task == inflight[i] IN
      /\ task.op = "runAnalysis"
      /\ task.pc = "updateSession"
      /\ \E objectives \in ServerStores(task.sent) :
          LET session == updateSession(server, task.sid, ObjectivesPatch(task.sent),
                                       objectives)
          IN  /\ server' = [server EXCEPT !.sessions[task.sid] = session]
              /\ lastReply' = session.learning_objectives
      /\ analysisView' = IF task.live THEN runAnalysisSaved(analysisView, task.sent)
                         ELSE analysisView
      /\ AnalyzeCall(i, task)
      /\ previous' = Snapshot
      /\ UNCHANGED <<activityView, generated, objects, summaryView, markdown>>
      /\ lastOp' = IF task.live THEN "runAnalysis:save:resolved" ELSE "unmounted:resolved"
      /\ UNCHANGED <<store, route, contextView>>

\* updateSession of runAnalysis is rejected: the inner catch only logs.
AnalysisSaveRejected ==
    \E i \in 1..Len(inflight) :
      LET task == inflight[i] IN
      /\ task.op = "runAnalysis"
      /\ task.pc = "updateSession"
      /\ AnalyzeCall(i, task)
      /\ previous' = Snapshot
      /\ UNCHANGED <<activityView, generated, objects, summaryView, markdown>>
      /\ lastOp' = IF task.live THEN "runAnalysis:save:rejected" ELSE "unmounted:rejected"
      /\ lastReply' = NoReply
      /\ UNCHANGED <<store, server, route, contextView, analysisView>>

\* analyzeObjectives resolves: the result is shown and a design step is stored.
AnalysisResolvedWith(payloads) ==
    \E i \in 1..Len(inflight), data \in payloads :
      LET task == inflight[i]
          result == [step_id |-> server.steps + 1,
                     recommendation_id |-> server.steps + 1,
                     data |-> data]
      IN
      /\ task.pc = "analyzeObjectives"
      /\ server' = [server EXCEPT !.steps = @ + 1]
      /\ analysisView' = IF task.live THEN runAnalysisResolved(analysisView, result)
                         ELSE analysisView
      /\ store' = addDesignStep(store,
            DesignStep(result.step_id, store.sessionId, "objective-analysis",
                       DraftOf(task)))
      /\ inflight' = Raced(Remove(inflight, i))
      /\ previous' = Snapshot
      /\ generated' = generated + 1
      /\ UNCHANGED <<activityView, objects, summaryView, markdown>>
      /\ lastOp' = "runAnalysis:resolved"
      /\ lastReply' = NoReply
      /\ UNCHANGED <<route, contextView>>

AnalysisResolved == AnalysisResolvedWith(AnalysisArgs)

\* The message of the outer catch of runAnalysis: the default one; the detail of an
\* error response, when there is one, takes its place and is non-empty too.
AnalysisErrors == {"Analysis failed. Please try again."}

\* analyzeObjectives is rejected: the outer catch shows its message.
AnalysisRejected ==
    \E i \in 1..Len(inflight), detail \in AnalysisErrors :
      LET task == inflight[i] IN
      /\ task.pc = "analyzeObjectives"
      /\ analysisView' = IF task.live THEN runAnalysisCatch(analysisView, detail)
                         ELSE analysisView
      /\ inflight' = Remove(inflight, i)
      /\ previous' = Snapshot
      /\ UNCHANGED <<activityView, generated, objects, summaryView, markdown>>
      /\ lastOp' = "runAnalysis:rejected"
      /\ lastReply' = NoReply
      /\ UNCHANGED <<store, server, route, contextView>>

Next ==
    \/ EditForm
    \/ HandleSubmitInvalid
    \/ HandleSubmit
    \/ HandleSubmitResolved
    \/ HandleSubmitRejected
    \/ NavigateToContext
    \/ NavigateToAnalysis
    \/ StartNewSession
    \/ EditDraft
    \/ SaveObjectives
    \/ InsertImprovedObjectives
    \/ ReplaceWithImprovedObjectives
    \/ RunAnalysis
    \/ PersistResolved
    \/ PersistRejected
    \/ CreateActionSettled
    \/ AnalysisSaveResolved
    \/ AnalysisSaveRejected
    \/ AnalysisResolved
    \/ AnalysisRejected

Spec == Init /\ [][Next]_vars

\* ------------------------------------------------------------------ claims

IsPrefix(old, new) ==
    /\ Len(old) <= Len(new)
    /\ \A i \in 1..Len(old) : new[i] = old[i]

\* C7: after any sequence of store operations, hasActiveSession is true exactly
\* when sessionId is non-null, and currentSession and sessionId are either both
\* null or sessionId is the id of currentSession.
C7_OneCurrentSession ==
    /\ hasActiveSession(store) <=> (store.sessionId # NullId)
    /\ \/ store.currentSession = NullObject /\ store.sessionId = NullId
       \/ /\ store.currentSession # NullObject
          /\ store.sessionId # NullId
          /\ store.sessionId = store.currentSession.id

\* A second session has replaced the first one as the current session.
C7_Witness ==
    /\ lastOp = "setSession"
    /\ store.currentSession # NullObject
    /\ store.sessionId = 2
    /\ HistLen(store) > 0

\* C8: from any reachable store state, resetSession() yields exactly the initial
\* state in one step; hasActiveSession is false and both lookups return nothing
\* for every argument.
C8_ResetRestoresInitial ==
    lastOp = "resetSession" =>
        /\ store.currentSession = NullObject
        /\ store.sessionId = NullId
        /\ store.courseContext = CourseContextForm("", "", "", <<>>, <<>>)
        /\ store.designSteps = <<>>
        /\ store.recommendations = <<>>
        /\ store.userActions = <<>>
        /\ store.objectiveAnalysis = NullObject
        /\ store.activitySuggestions = <<>>
        /\ store.currentPhase = "context"
        /\ ~store.isLoading
        /\ ~store.isGenerating
        /\ store = InitialStore
        /\ ~hasActiveSession(store)
        /\ \A p \in DesignPhase : currentStepForPhase(store, p) = NullObject
        /\ \A id \in StepIds : recommendationsForStep(store, id) = <<>>

\* resetSession has just run.
C8_Witness ==
    /\ lastOp = "resetSession"
    /\ store = InitialStore

\* C9: for every store operation other than resetSession the three history lists
\* before the operation are prefixes of the lists after it; each add operation
\* appends exactly one entry at the end of its own list and leaves the other two
\* lists as they were.
C9_AppendOnly ==
    [][lastOp' # "resetSession" =>
        /\ IsPrefix(store.designSteps, store'.designSteps)
        /\ IsPrefix(store.recommendations, store'.recommendations)
        /\ IsPrefix(store.userActions, store'.userActions)
        /\ Len(store'.designSteps) =
             Len(store.designSteps) + (IF lastOp' = "addDesignStep" THEN 1 ELSE 0)
        /\ Len(store'.recommendations) =
             Len(store.recommendations) + (IF lastOp' = "addRecommendation" THEN 1 ELSE 0)
        /\ Len(store'.userActions) =
             Len(store.userActions) + (IF lastOp' = "addUserAction" THEN 1 ELSE 0)
      ]_vars

\* A second design step has been appended behind a different first one.
C9_Witness ==
    /\ lastOp = "addDesignStep"
    /\ Len(store.designSteps) = 2
    /\ store.designSteps[1] # store.designSteps[2]

\* The earliest-inserted step of phase p, described without the lookup.
IsFirstOfPhase(steps, p, r) ==
    IF \E i \in 1..Len(steps) : steps[i].phase = p
    THEN \E i \in 1..Len(steps) :
            /\ steps[i].phase = p
            /\ \A j \in 1..(i - 1) : steps[j].phase # p
            /\ r = steps[i]
    ELSE r = NullObject

\* C10: for every sequence of addDesignStep calls since the last reset and every
\* phase p, currentStepForPhase(p) is the earliest-inserted step of phase p, or
\* nothing if there is none; adding a further step of a phase that already has
\* one does not change what the lookup returns.
C10_FirstStepOfPhase ==
    /\ [](\A p \in DesignPhase :
            IsFirstOfPhase(store.designSteps, p, currentStepForPhase(store, p)))
    /\ [][\A p \in DesignPhase :
            (lastOp' = "addDesignStep" /\ currentStepForPhase(store, p) # NullObject)
                => currentStepForPhase(store', p) = currentStepForPhase(store, p)]_vars

\* A phase has been run twice: two different steps of the same phase are stored.
C10_Witness ==
    /\ lastOp = "addDesignStep"
    /\ Len(store.designSteps) = 2
    /\ store.designSteps[1].phase = store.designSteps[2].phase
    /\ store.designSteps[1].id # store.designSteps[2].id
    /\ currentStepForPhase(store, store.designSteps[1].phase) = store.designSteps[1]

\* -------------------------------------------------- claims on the analysis view

\* The learning objectives the remote service holds for the current session.
HeldObjectives ==
    IF store.sessionId = NullId THEN <<>>
    ELSE orEmpty(server.sessions[store.sessionId].learning_objectives)

LocalEdits == {"editDraft", "insertImprovedObjectives", "replaceWithImprovedObjectives"}

\* C1: every successful persistence of the learning objectives, by
\* persistObjectives (Save, Insert below, Replace) or by the save of runAnalysis,
\* sets the baseline lastSavedObjectives to the value the server returned.
C1_BaselineFromServer ==
    lastOp \in {"persistObjectives:resolved", "runAnalysis:save:resolved"} =>
        analysisView.lastSavedObjectives = orEmpty(lastReply)

\* C2: a persistence attempt that fails leaves lastSavedObjectives and
\* objectivesDraft as they were, so a Dirty field is still Dirty afterwards; for
\* saveObjectives and for the pre-analysis save of runAnalysis, at the step that
\* issues the request and at the step that handles its rejection.
C2_FailedPersistKeepsDirty ==
    [][lastOp' \in {"saveObjectives", "saveObjectives:rejected",
                    "runAnalysis", "runAnalysis:save:rejected"} =>
        /\ analysisView'.lastSavedObjectives = analysisView.lastSavedObjectives
        /\ analysisView'.objectivesDraft = analysisView.objectivesDraft
        /\ isDirty(analysisView) => isDirty(analysisView')
      ]_vars

\* A save of a Dirty field has failed and the field is Dirty.
C2_Witness ==
    /\ lastOp = "saveObjectives:rejected"
    /\ isDirty(analysisView)
    /\ analysisView.lastSavedObjectives # <<>>

\* The draft as the handler of the step leaves it before the watcher runs.
DraftBeforeWatcher ==
    IF lastOp' = "insertImprovedObjectives" THEN insertedText(analysisView)
    ELSE IF lastOp' = "replaceWithImprovedObjectives"
         THEN stripMarkdown(getImprovedObjectivesText(analysisView))
         ELSE analysisView.objectivesDraft

\* C3: after first hydration, when the store's learning objectives change while
\* the view stays mounted: a Clean draft is set to the new store value, a Dirty
\* draft is left unchanged.
C3_WatcherSparesDirtyDraft ==
    [][(/\ OnAnalysis
        /\ route' = "/objective-analysis"
        /\ analysisView.hasSavedBaseline
        /\ store'.courseContext.learning_objectives # store.courseContext.learning_objectives)
       =>
        IF DraftBeforeWatcher = analysisView.lastSavedObjectives
        THEN analysisView'.objectivesDraft = store'.courseContext.learning_objectives
        ELSE analysisView'.objectivesDraft = DraftBeforeWatcher
      ]_vars

\* The store's objectives changed under a Dirty draft, which is still there.
C3_Witness ==
    /\ lastOp = "handleSubmit:resolved"
    /\ OnAnalysis
    /\ analysisView.hasSavedBaseline
    /\ previous.dirty
    /\ previous.objectives # store.courseContext.learning_objectives
    /\ isDirty(analysisView)
    /\ analysisView.objectivesDraft # store.courseContext.learning_objectives
    /\ analysisView.lastSavedObjectives # store.courseContext.learning_objectives

\* C4: at every moment after first hydration the baseline is the learning
\* objectives the remote service holds for the current session, so a Clean draft
\* is what the server holds.
C4_BaselineIsPersisted ==
    (OnAnalysis /\ analysisView.hasSavedBaseline) =>
        /\ analysisView.lastSavedObjectives = HeldObjectives
        /\ ~isDirty(analysisView) => analysisView.objectivesDraft = HeldObjectives

\* C5: every failed attempt to persist the learning objectives leaves a
\* non-empty errorMessage in the view and no success message.
C5_FailedPersistShowsError ==
    lastOp \in {"saveObjectives:rejected", "insertImprovedObjectives:rejected",
                "replaceWithImprovedObjectives:rejected", "runAnalysis:save:rejected"} =>
        /\ analysisView.errorMessage # ""
        /\ analysisView.successMessage = ""

\* A step of the mounted view that finds the field Clean and leaves it Dirty.
CleanToDirty ==
    /\ OnAnalysis
    /\ route' = "/objective-analysis"
    /\ ~isDirty(analysisView)
    /\ isDirty(analysisView')

\* C6 as stated: the field moves from Clean to Dirty only through a local edit
\* of the draft (typing, Insert below, Replace).
C6_OnlyLocalEditsDirty ==
    [][CleanToDirty => lastOp' \in LocalEdits]_vars

\* C6 as amended: a Clean field becomes Dirty only through a local edit, through
\* the watcher refreshing the draft to a changed store value, or through a
\* resolved persistObjectives whose returned value differs from the draft of
\* that moment; no rejected request, nor the resolved save of runAnalysis, nor
\* the analysis response, turns a Clean field Dirty.
C6_CleanToDirtySteps ==
    [][CleanToDirty =>
        \/ lastOp' \in LocalEdits
        \/ /\ lastOp' = "handleSubmit:resolved"
           /\ store'.courseContext.learning_objectives # store.courseContext.learning_objectives
           /\ analysisView'.objectivesDraft = store'.courseContext.learning_objectives
           /\ analysisView'.lastSavedObjectives = analysisView.lastSavedObjectives
        \/ /\ lastOp' = "persistObjectives:resolved"
           /\ analysisView'.lastSavedObjectives = orEmpty(lastReply')
           /\ analysisView'.objectivesDraft = analysisView.objectivesDraft
      ]_vars

\* A save resolved after the draft had been edited back to the baseline: the
\* baseline moved to the returned value and the Clean field became Dirty.
C6_Witness ==
    /\ lastOp = "persistObjectives:resolved"
    /\ OnAnalysis
    /\ ~previous.dirty
    /\ isDirty(analysisView)
    /\ analysisView.lastSavedObjectives = orEmpty(lastReply)

\* ------------------------------------------------ claims on the generation calls

\* C11: after a session is created and an objective analysis succeeds, the store
\* holds a design step of phase 'objective-analysis' whose id is the step_id of
\* the response, and a recommendation for it: recommendationsForStep(step.id)
\* returns exactly one entry.
C11_AnalysisStoresRecommendation ==
    lastOp = "runAnalysis:resolved" =>
        /\ \E i \in 1..Len(store.designSteps) :
              /\ store.designSteps[i].phase = "objective-analysis"
              /\ store.designSteps[i].id = server.steps
        /\ Len(recommendationsForStep(store, server.steps)) = 1

\* ------------------------------------------------- further claims on the store

\* C17: for every form f and text x, after setCourseContext(f) followed by
\* updateLearningObjectives(x) the store's learning objectives are x and the
\* other fields of courseContext are those of f; updateLearningObjectives
\* changes no other store variable.
C17_ObjectivesUpdateKeepsForm ==
    \A f \in ContextArgs, x \in Texts \cup {<<"b">>} :
        LET s1 == setCourseContext(store, f)
            s2 == updateLearningObjectives(s1, x)
        IN  /\ s2.courseContext.learning_objectives = x
            /\ s2.courseContext.course_title = f.course_title
            /\ s2.courseContext.level = f.level
            /\ s2.courseContext.modality = f.modality
            /\ s2.courseContext.constraints = f.constraints
            /\ DOMAIN s2.courseContext = DOMAIN f
            /\ \A k \in DOMAIN store \ {"courseContext"} : s2[k] = s1[k] /\ s1[k] = store[k]
            /\ DOMAIN s2 = DOMAIN store

\* The objectives of a stored form have just been replaced by another text.
C17_Witness ==
    /\ lastOp = "updateLearningObjectives"
    /\ store.courseContext.learning_objectives = <<"b">>
    /\ store.courseContext.course_title = "t2"
    /\ store.courseContext.constraints = <<"c">>
    /\ HistLen(store) > 0

\* C19: setSession(session) sets currentSession and sessionId and leaves the
\* history lists, courseContext, objectiveAnalysis, activitySuggestions,
\* currentPhase and both loading flags unchanged; afterwards hasActiveSession
\* is true.
C19_SetSessionFrame ==
    \A session \in SessionArgs :
        LET s2 == setSession(store, session)
        IN  /\ s2.currentSession = session
            /\ s2.sessionId = session.id
            /\ \A k \in DOMAIN store \ {"currentSession", "sessionId"} : s2[k] = store[k]
            /\ DOMAIN s2 = DOMAIN store
            /\ hasActiveSession(s2)

\* A session was set over a store that holds history, a form and a phase.
C19_Witness ==
    /\ lastOp = "setSession"
    /\ hasActiveSession(store)
    /\ HistLen(store) = MaxHist
    /\ store.courseContext # InitialStore.courseContext
    /\ store.currentPhase # "context"

\* C20: for every sequence of addRecommendation calls since the last reset and
\* every stepId, recommendationsForStep(stepId) returns exactly the
\* recommendations whose step_id is stepId, each as often as it was added, in
\* insertion order.
C20_RecommendationsOfStep ==
    \A id \in StepIds :
        recommendationsForStep(store, id) =
            SelectSeq(store.recommendations, LAMBDA r : r.step_id = id)

\* Two different recommendations of one step are stored, or one of another step
\* between them is left out.
C20_Witness ==
    /\ lastOp = "addRecommendation"
    /\ Len(store.recommendations) = 2
    /\ store.recommendations[1].step_id = store.recommendations[2].step_id
    /\ store.recommendations[1].id # store.recommendations[2].id

\* ------------------------------------------------------ claims on handleSubmit

\* C15: after handleSubmit succeeds with all required fields filled, the store's
\* currentSession is the session the server returned, sessionId is its id,
\* hasActiveSession is true, courseContext equals the submitted form values and
\* currentPhase is 'objective-analysis'; if the remote call fails,
\* currentSession, sessionId, courseContext and currentPhase are unchanged.
C15_SubmitStoresSession ==
    [][/\ lastOp' = "handleSubmit:resolved" =>
            /\ hasActiveSession(store')
            /\ store'.currentSession = server'.sessions[store'.sessionId]
            /\ store'.sessionId = store'.currentSession.id
            /\ \E i \in 1..Len(inflight) :
                  /\ inflight[i].op = "handleSubmit"
                  /\ SubmitBody(store'.courseContext) = inflight[i].sent
            /\ store'.currentPhase = "objective-analysis"
       /\ lastOp' = "handleSubmit:rejected" =>
            /\ store'.currentSession = store.currentSession
            /\ store'.sessionId = store.sessionId
            /\ store'.courseContext = store.courseContext
            /\ store'.currentPhase = store.currentPhase
      ]_vars

\* ------------------------------- the course-context view with its navigation

\* Submissions that may be in flight at once: one of an unmounted view and one
\* of the mounted one.
MaxSubmits == 2

\* The remote service with room for two sessions.
SessionServer == [sessions |-> [i \in SessionIds |-> NullObject], steps |-> 0]

SessionInit ==
    /\ store = InitialStore
    /\ server = SessionServer
    /\ route = "/new-session"
    /\ contextView = mountContextView(InitialStore)
    /\ analysisView = InitialAnalysisView
    /\ inflight = <<>>
    /\ lastOp = "init"
    /\ lastReply = NoReply
    /\ previous = InitialSnapshot
    /\ activityView = InitialActivityView
    /\ generated = 0
    /\ objects = InitialObjects
    /\ summaryView = InitialSummaryView
    /\ markdown = InitialMarkdown

HandleSubmitAgain == HandleSubmitWithin(MaxSubmits)

SessionNext ==
    \/ EditForm
    \/ HandleSubmitInvalid
    \/ HandleSubmitAgain
    \/ HandleSubmitResolved
    \/ HandleSubmitRejected
    \/ NavigateToContext
    \/ NavigateToAnalysis
    \/ StartNewSession

SpecSession == SessionInit /\ [][SessionNext]_vars

\* C16: handleSubmit issues a session-create request only when the store has no
\* active session and otherwise a partial update of the current session id;
\* consequently sessionId never changes from one non-null id to a different
\* non-null id without an intervening resetSession.
C16_OneSessionUntilReset ==
    [][/\ lastOp' = "handleSubmit" =>
            LET task == inflight'[Len(inflight')] IN
            /\ task.op = "handleSubmit"
            /\ task.pc = "createSession" <=> ~hasActiveSession(store)
            /\ task.pc = "updateSession" <=> hasActiveSession(store)
            /\ task.pc = "updateSession" => task.sid = store.sessionId
       /\ (store.sessionId # NullId /\ store'.sessionId # NullId) =>
            store'.sessionId = store.sessionId
      ]_vars

\* -------------------------------------- the store's courseContext as an object

\* The object spread { ...context }: a new object with the fields of the source.
spread(source) == [k \in DOMAIN source |-> source[k]]

\* The address the store's ref does not point to.
FreshForm(o) == CHOOSE a \in StoreForms : a # o.courseContext

\* The store keeps the caller's object itself.
setCourseContextRef_alias(o, context) == [o EXCEPT !.courseContext = context]

\* setCourseContext(context), context being the address of the caller's object.
setCourseContextRef(o, context) ==
    [o EXCEPT !.heap[FreshForm(o)] = spread(o.heap[context]),
              !.courseContext = FreshForm(o)]

\* updateLearningObjectives assigns the field of the object the ref points to.
updateLearningObjectivesRef(o, objectives) ==
    [o EXCEPT !.heap[o.courseContext].learning_objectives = objectives]

\* resetSession gives the ref a new empty form.
resetCourseContextRef(o) ==
    [o EXCEPT !.heap[FreshForm(o)] = EmptyForm, !.courseContext = FreshForm(o)]

\* An input bound to a field of the caller's reactive form assigns that field.
assignFormField(o, field, value) == [o EXCEPT !.heap[CallerForm][field] = value]

\* Values typed into the fields of the form.
FieldArgs ==
    [course_title : {"", "t1", "t2"}, constraints : {<<>>, <<"c">>},
     learning_objectives : {<<>>, <<"a">>}]

OthersIdle ==
    /\ store = InitialStore
    /\ server = InitialServer
    /\ route = "/new-session"
    /\ contextView = InitialContextView
    /\ analysisView = InitialAnalysisView
    /\ inflight = <<>>
    /\ lastReply = NoReply
    /\ previous = InitialSnapshot
    /\ activityView = InitialActivityView
    /\ generated = 0

otherVars ==
    <<store, server, route, contextView, analysisView, inflight, lastReply, previous,
      activityView, generated, summaryView, markdown>>

CopyInit ==
    /\ objects = InitialObjects
    /\ summaryView = InitialSummaryView
    /\ markdown = InitialMarkdown
    /\ lastOp = "init"
    /\ OthersIdle

CopyEditForm ==
    \E field \in {"course_title", "constraints", "learning_objectives"}, args \in FieldArgs :
        /\ args[field] # objects.heap[CallerForm][field]
        /\ objects' = assignFormField(objects, field, args[field])
        /\ lastOp' = "editForm"
        /\ UNCHANGED otherVars

CopySetCourseContext ==
    /\ objects' = setCourseContextRef(objects, CallerForm)
    /\ lastOp' = "setCourseContext"
    /\ UNCHANGED otherVars

CopyUpdateLearningObjectives ==
    \E objectives \in {<<>>, <<"b">>} :
        /\ objects' = updateLearningObjectivesRef(objects, objectives)
        /\ lastOp' = "updateLearningObjectives"
        /\ UNCHANGED otherVars

CopyResetSession ==
    /\ objects' = resetCourseContextRef(objects)
    /\ lastOp' = "resetSession"
    /\ UNCHANGED otherVars

CopyNext ==
    \/ CopyEditForm
    \/ CopySetCourseContext
    \/ CopyUpdateLearningObjectives
    \/ CopyResetSession

SpecCopy == CopyInit /\ [][CopyNext]_vars

\* C18: setCourseContext(form) stores a copy: a later change by the caller to the
\* fields of the object it passed leaves the store's courseContext unchanged,
\* and a later updateLearningObjectives on the store leaves the caller's object
\* unchanged.
C18_ContextIsCopied ==
    [][/\ lastOp' = "editForm" =>
            /\ objects'.courseContext = objects.courseContext
            /\ objects'.heap[objects'.courseContext] = objects.heap[objects.courseContext]
       /\ lastOp' = "updateLearningObjectives" =>
            objects'.heap[CallerForm] = objects.heap[CallerForm]
       /\ lastOp' = "setCourseContext" =>
            objects'.heap[objects'.courseContext] = objects.heap[CallerForm]
      ]_vars

\* The store holds a form it was passed, the caller has edited its object since,
\* and the two differ.
C18_Witness ==
    /\ lastOp = "editForm"
    /\ objects.heap[objects.courseContext].course_title = "t1"
    /\ objects.heap[objects.courseContext].learning_objectives = <<"b">>
    /\ objects.heap[CallerForm].course_title = "t2"
    /\ objects.heap[CallerForm].learning_objectives = <<"a">>

\* ------------------------------------------------- the generation calls

\* Generation requests that may be in flight at once, and that the service
\* answers in all.
MaxGenInFlight == 2

GenSteps == 2

\* Responses of suggestActivities.
GenerationArgs ==
    {[activities |-> <<"**a**">>, parse_error |-> FALSE],
     [activities |-> <<"b">>, parse_error |-> FALSE],
     [activities |-> <<>>, parse_error |-> TRUE]}

GenerationErrors == {"Generation failed. Please try again."}

\* A second runAnalysis while a generation of an unmounted view is in flight.
RunAnalysisAgain == RunAnalysisWithin(MaxGenInFlight, GenSteps)

\* proceedToActivities of the analysis view.
ProceedToActivities ==
    /\ OnAnalysis
    /\ store' = setCurrentPhase(store, "activity-suggestion")
    /\ route' = "/activity-suggestion"
    /\ inflight' = Unmounted(inflight, AnalysisOps, contextView, analysisView)
    /\ analysisView' = InitialAnalysisView
    /\ activityView' = mountActivityView
    /\ previous' = Snapshot
    /\ lastOp' = "proceedToActivities"
    /\ lastReply' = NoReply
    /\ UNCHANGED <<server, contextView, generated, objects, summaryView, markdown>>

\* The sidebar leads from the context view to the activity view.
NavigateToActivity ==
    /\ OnContext
    /\ hasActiveSession(store)
    /\ route' = "/activity-suggestion"
    /\ inflight' = Unmounted(inflight, ContextOps, contextView, analysisView)
    /\ contextView' = InitialContextView
    /\ activityView' = mountActivityView
    /\ previous' = Snapshot
    /\ lastOp' = "navigate:/activity-suggestion"
    /\ lastReply' = NoReply
    /\ UNCHANGED <<store, server, analysisView, generated, objects, summaryView, markdown>>

\* The Back button or the sidebar leads away from the activity view.
LeaveActivity ==
    \E to \in {"/new-session", "/objective-analysis"} :
        /\ OnActivity
        /\ route' = to
        /\ inflight' = Unmounted(inflight, ActivityOps, contextView, analysisView)
        /\ activityView' = InitialActivityView
        /\ contextView' = IF to = "/new-session" THEN mountContextView(store)
                          ELSE contextView
        /\ analysisView' = IF to = "/objective-analysis" THEN mountAnalysisView(store)
                           ELSE analysisView
        /\ previous' = Snapshot
        /\ lastOp' = "navigate:" \o to
        /\ lastReply' = NoReply
        /\ UNCHANGED <<store, server, generated, objects, summaryView, markdown>>

\* getLLMStatus of onMounted settles: the rest of onMounted runs.
ActivityMounted ==
    /\ OnActivity
    /\ activityView.hydrating
    /\ activityView' = hydrateActivities(activityView, store)
    /\ previous' = Snapshot
    /\ lastOp' = "activity:mounted"
    /\ lastReply' = NoReply
    /\ UNCHANGED <<store, server, route, contextView, analysisView, inflight, generated,
                   objects, summaryView, markdown>>

\* The Generate button: generateSuggestions up to its await, with fewer than
\* limit invocations suspended and fewer than steps generations.
GenerateSuggestionsWithin(limit, steps) ==
    /\ OnActivity
    /\ ~activityView.isGenerating
    /\ store.sessionId # NullId
    /\ Len(inflight) < limit
    /\ server.steps + Cardinality(Generating(inflight)) < steps
    /\ activityView' = generateSuggestionsBegin(activityView)
    /\ inflight' = Append(inflight,
         Task("generateSuggestions", "suggestActivities", store.sessionId,
              store.courseContext.learning_objectives))
    /\ previous' = Snapshot
    /\ lastOp' = "generateSuggestions"
    /\ lastReply' = NoReply
    /\ UNCHANGED <<store, server, route, contextView, analysisView, generated, objects,
                   summaryView, markdown>>

GenerateSuggestions == GenerateSuggestionsWithin(MaxGenInFlight, GenSteps)

\* suggestActivities resolves: the rest of the try block runs.
GenerateResolved ==
    \E i \in 1..Len(inflight), data \in GenerationArgs :
      LET task == inflight[i]
          result == [step_id |-> server.steps + 1,
                     recommendation_id |-> server.steps + 1,
                     data |-> data]
      IN
      /\ task.op = "generateSuggestions"
      /\ server' = [server EXCEPT !.steps = @ + 1]
      /\ activityView' = IF task.live THEN generateSuggestionsResolved(activityView, result)
                         ELSE activityView
      /\ store' = addDesignStep(
            setActivitySuggestions(store, cleanedList(data)),
            DesignStep(result.step_id, store.sessionId, "activity-suggestion",
                       store.courseContext.learning_objectives))
      /\ inflight' = Raced(Remove(inflight, i))
      /\ previous' = Snapshot
      /\ generated' = generated + 1
      /\ lastOp' = "generateSuggestions:resolved"
      /\ lastReply' = data.activities
      /\ UNCHANGED <<route, contextView, analysisView, objects, summaryView, markdown>>

\* suggestActivities is rejected: the catch block shows its message.
GenerateRejected ==
    \E i \in 1..Len(inflight), detail \in GenerationErrors :
      LET task == inflight[i] IN
      /\ task.op = "generateSuggestions"
      /\ activityView' = IF task.live THEN generateSuggestionsCatch(activityView, detail)
                         ELSE activityView
      /\ inflight' = Remove(inflight, i)
      /\ previous' = Snapshot
      /\ lastOp' = "generateSuggestions:rejected"
      /\ lastReply' = NoReply
      /\ UNCHANGED <<store, server, route, contextView, analysisView, generated, objects,
                     summaryView, markdown>>

GenNext ==
    \/ EditForm
    \/ HandleSubmitInvalid
    \/ HandleSubmit
    \/ HandleSubmitResolved
    \/ HandleSubmitRejected
    \/ NavigateToContext
    \/ NavigateToAnalysis
    \/ NavigateToActivity
    \/ ProceedToActivities
    \/ LeaveActivity
    \/ StartNewSession
    \/ RunAnalysisAgain
    \/ AnalysisSaveResolved
    \/ AnalysisSaveRejected
    \/ AnalysisResolved
    \/ AnalysisRejected
    \/ ActivityMounted
    \/ GenerateSuggestions
    \/ GenerateResolved
    \/ GenerateRejected

SpecGen == Init /\ [][GenNext]_vars

\* The list the last response of suggestActivities carried, cleaned.
CleanedReply == [i \in 1..Len(lastReply) |-> stripMarkdownLine(lastReply[i])]

\* C12: after every successful AI-generation call the parsed result is held in
\* the store: a successful objective analysis sets the store's
\* objectiveAnalysis to the returned analysis, and a successful activity
\* generation sets the store's activitySuggestions to the returned, cleaned
\* activity list.
C12_ResultHeldInStore ==
    /\ lastOp = "runAnalysis:resolved" => store.objectiveAnalysis \in AnalysisArgs
    /\ lastOp = "generateSuggestions:resolved" => store.activitySuggestions = CleanedReply

\* The steps the store holds of a phase.
StepsOfPhase(steps, phase) == SelectSeq(steps, LAMBDA step : step.phase = phase)

ResolvesLast(i) ==
    /\ inflight[i].raced
    /\ inflight' = Raced(Remove(inflight, i))
    /\ lastOp' \in {"runAnalysis:resolved", "generateSuggestions:resolved"}

\* The mounted view shows the response of this step.
ShowsResponse ==
    IF lastOp' = "generateSuggestions:resolved"
    THEN /\ OnActivity
         /\ activityView'.stepId = server'.steps
         /\ activityView'.recommendationId = server'.steps
         /\ activityView'.activities = displayed(store'.activitySuggestions)
    ELSE /\ OnAnalysis
         /\ analysisView'.stepId = server'.steps
         /\ analysisView'.recommendationId = server'.steps
         /\ analysisView'.analysisResult \in AnalysisArgs

\* The store has taken the response of this step.
StoresResponse ==
    /\ Len(store'.designSteps) = Len(store.designSteps) + 1
    /\ store'.designSteps[Len(store'.designSteps)].id = server'.steps
    /\ lastOp' = "generateSuggestions:resolved" =>
            store'.activitySuggestions =
                [k \in 1..Len(lastReply') |-> stripMarkdownLine(lastReply'[k])]

\* C14 as stated: when two generation calls are in flight at the same time and
\* both succeed, both responses are applied, and the displayed result and the
\* store's activitySuggestions are those of the response that resolves last,
\* whichever call was issued last.
C14_LastResolvedShown ==
    [][\A i \in 1..Len(inflight) :
          ResolvesLast(i) => (StoresResponse /\ ShowsResponse)]_vars

\* C14, the part that holds: both responses are applied to the store, each appending its
\* design step, and the store's activitySuggestions are those of the
\* generateSuggestions response that resolves last; the displayed result is
\* that of the last response only if the view instance that issued the call
\* is still mounted, and a response to a call of an unmounted instance leaves
\* what is displayed as it is.
C14_ResponsesApplied ==
    [][\A i \in 1..Len(inflight) :
          ResolvesLast(i) =>
            /\ StoresResponse
            /\ IF inflight[i].live THEN ShowsResponse
               ELSE /\ activityView' = activityView
                    /\ analysisView' = analysisView
                    /\ route' = route
      ]_vars

\* Two generations were in flight together; the one of the unmounted view
\* instance resolved last: the store holds its activities, the view shows those
\* of the other.
C14_Witness ==
    /\ lastOp = "generateSuggestions:resolved"
    /\ previous.raced
    /\ OnActivity
    /\ Len(store.designSteps) = 2
    /\ store.activitySuggestions # <<>>
    /\ activityView.activities # <<>>
    /\ activityView.activities # displayed(store.activitySuggestions)

\* The step is the successful end of the runAnalysis invocation i.
AnalysisEnds(i) ==
    /\ inflight[i].pc = "analyzeObjectives"
    /\ lastOp' = "runAnalysis:resolved"
    /\ inflight' = Raced(Remove(inflight, i))

\* C27: the DesignStep appended by runAnalysis has as user_input the objectives
\* text sent in the analyzeObjectives request of that invocation and as
\* session_id the session id the request was sent for, even if the draft is
\* edited while the request is in flight.
C27_StepRecordsRequest ==
    [][\A i \in 1..Len(inflight) :
          AnalysisEnds(i) =>
            LET step == store'.designSteps[Len(store'.designSteps)] IN
            /\ Len(store'.designSteps) = Len(store.designSteps) + 1
            /\ step.user_input = inflight[i].sent
            /\ step.session_id = inflight[i].sid
      ]_vars

\* The step is the end of a request that was sent for a session while the store
\* has been reset since, and there is no other request it could be the end of.
StaleResponse ==
    /\ store.sessionId = NullId
    /\ inflight # <<>>
    /\ \A i \in 1..Len(inflight) : inflight[i].sid # NullId
    /\ Len(inflight') < Len(inflight)

\* C26: once resetSession has run, a response to a request issued before the
\* reset (handleSubmit, runAnalysis, generateSuggestions) does not write to the
\* store: no previously current session becomes current again, and every
\* DesignStep in designSteps has session_id equal to the store's current
\* non-null sessionId.
C26_NoWriteAfterReset ==
    [][/\ StaleResponse => store' = store
       /\ \A k \in 1..Len(store'.designSteps) :
              /\ store'.sessionId # NullId
              /\ store'.designSteps[k].session_id = store'.sessionId
      ]_vars

\* The step is the successful end of the handleSubmit invocation i of the
\* mounted view, whose form is still as it was submitted.
SubmitEnds(i) ==
    /\ inflight[i].op = "handleSubmit"
    /\ inflight[i].live
    /\ SubmitBody(contextView.form) = inflight[i].sent
    /\ lastOp' = "handleSubmit:resolved"
    /\ inflight' = Unmounted(Remove(inflight, i),
                             ContextOps \cup ActivityOps \cup SummaryOps,
                             contextView, analysisView)

\* The store's courseContext and session s agree, null taken as empty.
Agree(context, s) ==
    /\ context.course_title = s.course_title
    /\ context.level = s.level
    /\ context.modality = s.modality
    /\ context.constraints = orEmpty(s.constraints)
    /\ context.learning_objectives = orEmpty(s.learning_objectives)

\* C29: after every successful handleSubmit the store's courseContext agrees
\* with the session persisted by the remote service and held in currentSession
\* on course_title, level, modality, constraints and learning_objectives (null
\* as empty); clearing the learning objectives of an existing session and
\* saving leaves store and server both empty.
C29_ContextAgreesWithSession ==
    [][\A i \in 1..Len(inflight) :
          SubmitEnds(i) =>
            /\ store'.currentSession = server'.sessions[store'.sessionId]
            /\ Agree(store'.courseContext, store'.currentSession)
      ]_vars

\* ------------------------------------------------ stripMarkdown on characters

\* The texts above are sequences of whole lines; here a text is one line, a
\* sequence of characters, and stripMarkdown is the chain of replacements of
\* the source, each a global regular-expression replace scanning from the left.
\* The line has no '#', '>', '-', digit, tab or newline, so the heading and
\* blockquote rules and the other list markers have nothing to match.
Letters == {"a", "b"}

\* The character U+0060, which a string of this notation cannot hold.
Backtick == "backtick"

isLetter(c) == c \in Letters

\* The least index from i on at which s has c, or 0.
RECURSIVE indexOf(_, _, _)
indexOf(s, c, i) ==
    IF i > Len(s) THEN 0
    ELSE IF s[i] = c THEN i
    ELSE indexOf(s, c, i + 1)

\* s has n times c from i on.
hasRun(s, c, n, i) == i + n - 1 <= Len(s) /\ \A k \in i..(i + n - 1) : s[k] = c

\* The least index from i on at which a code fence starts, or 0.
RECURSIVE indexOfFence(_, _)
indexOfFence(s, i) ==
    IF i + 2 > Len(s) THEN 0
    ELSE IF hasRun(s, Backtick, 3, i) THEN i
    ELSE indexOfFence(s, i + 1)

RECURSIVE dropLetters(_)
dropLetters(s) == IF s # <<>> /\ isLetter(Head(s)) THEN dropLetters(Tail(s)) ELSE s

\* /```[\s\S]*?```/g : a fenced block loses its fences and, with the opening
\* fence, the letters that follow it.
RECURSIVE replaceFences(_, _)
replaceFences(s, i) ==
    IF i > Len(s) THEN <<>>
    ELSE LET close == IF hasRun(s, Backtick, 3, i) THEN indexOfFence(s, i + 3) ELSE 0 IN
         IF close # 0
         THEN dropLetters(SubSeq(s, i + 3, close - 1)) \o replaceFences(s, close + 3)
         ELSE <<s[i]>> \o replaceFences(s, i + 1)

\* The link rule left out: the text passes unchanged.
replaceLinks_kept(s, i) == s

\* /\[([^\]]+)\]\(([^)]+)\)/g -> $1 : a link is replaced by its label.
RECURSIVE replaceLinks(_, _)
replaceLinks(s, i) ==
    IF i > Len(s) THEN <<>>
    ELSE LET close == IF s[i] = "[" THEN indexOf(s, "]", i + 1) ELSE 0
             paren == IF close > i + 1 /\ close < Len(s) /\ s[close + 1] = "("
                      THEN indexOf(s, ")", close + 2) ELSE 0
         IN  IF paren > close + 2
             THEN SubSeq(s, i + 1, close - 1) \o replaceLinks(s, paren + 1)
             ELSE <<s[i]>> \o replaceLinks(s, i + 1)

\* /d{n}([^d]+)d{n}/g -> $1 : a run without d between n times d on either side
\* loses the delimiters (inline code, ** and __, * and _).
RECURSIVE replaceDelimited(_, _, _, _)
replaceDelimited(s, d, n, i) ==
    IF i > Len(s) THEN <<>>
    ELSE LET end == IF hasRun(s, d, n, i) THEN indexOf(s, d, i + n) ELSE 0 IN
         IF end > i + n /\ hasRun(s, d, n, end)
         THEN SubSeq(s, i + n, end - 1) \o replaceDelimited(s, d, n, end + n)
         ELSE <<s[i]>> \o replaceDelimited(s, d, n, i + 1)

RECURSIVE dropSpaces(_)
dropSpaces(s) == IF s # <<>> /\ Head(s) = " " THEN dropSpaces(Tail(s)) ELSE s

RECURSIVE dropTrailingSpaces(_)
dropTrailingSpaces(s) ==
    IF s # <<>> /\ s[Len(s)] = " " THEN dropTrailingSpaces(SubSeq(s, 1, Len(s) - 1))
    ELSE s

\* /^\s*(?:[-*]|\d+\.)\s+/gm : a list marker at the start of the line goes, with
\* the blanks around it.
replaceListMarker(s) ==
    LET rest == dropSpaces(s) IN
    IF Len(rest) >= 2 /\ rest[1] = "*" /\ rest[2] = " "
    THEN dropSpaces(Tail(rest))
    ELSE s

stripMarkdownChars(s) ==
    LET fences == replaceFences(s, 1)
        links == replaceLinks(fences, 1)
        code == replaceDelimited(links, Backtick, 1, 1)
        markers == replaceListMarker(code)
        bold == replaceDelimited(markers, "*", 2, 1)
        bold2 == replaceDelimited(bold, "_", 2, 1)
        emphasis == replaceDelimited(bold2, "*", 1, 1)
        emphasis2 == replaceDelimited(emphasis, "_", 1, 1)
    IN  dropSpaces(dropTrailingSpaces(emphasis2))

\* Texts handed to stripMarkdown: plain words, bold words, inline code and links
\* joined by blanks, at most MaxTokens of them.
MaxTokens == 5

TokenKinds == {"plainA", "plainB", "bold", "code", "link"}

\* A token as it is written, and the word it stands for.
written(kind) ==
    CASE kind = "plainA" -> <<"a">>
      [] kind = "plainB" -> <<"b">>
      [] kind = "bold" -> <<"*", "*", "a", "b", "*", "*">>
      [] kind = "code" -> <<Backtick, "b", "a", Backtick>>
      [] kind = "link" -> <<"[", "a", " ", "b", "]", "(", "b", "a", ")">>

word(kind) ==
    CASE kind = "plainA" -> <<"a">>
      [] kind = "plainB" -> <<"b">>
      [] kind = "bold" -> <<"a", "b">>
      [] kind = "code" -> <<"b", "a">>
      [] kind = "link" -> <<"a", " ", "b">>

\* Texts joined by single blanks.
RECURSIVE joined(_)
joined(texts) ==
    IF texts = <<>> THEN <<>>
    ELSE IF Len(texts) = 1 THEN texts[1]
    ELSE texts[1] \o <<" ">> \o joined(Tail(texts))

writtenText(tokens) == joined([k \in 1..Len(tokens) |-> written(tokens[k])])

wordsText(tokens) == joined([k \in 1..Len(tokens) |-> word(tokens[k])])

TokenLists == UNION { [1..n -> TokenKinds] : n \in 1..MaxTokens }

\* A text with the tokens it was written from.
MarkdownArgs ==
    { [tokens |-> tokens, input |-> writtenText(tokens), output |-> <<>>, done |-> FALSE] :
        tokens \in TokenLists }

\* The other state does not take part.
OthersStill ==
    UNCHANGED <<store, server, route, contextView, analysisView, inflight, lastReply,
                previous, activityView, generated, objects, summaryView>>

TextInit ==
    /\ markdown \in MarkdownArgs
    /\ lastOp = "init"
    /\ objects = InitialObjects
    /\ summaryView = InitialSummaryView
    /\ OthersIdle

\* A view hands the text to stripMarkdown.
StripMarkdown ==
    /\ ~markdown.done
    /\ markdown' = [markdown EXCEPT !.output = stripMarkdownChars(markdown.input),
                                    !.done = TRUE]
    /\ lastOp' = "stripMarkdown"
    /\ OthersStill

TextNext == StripMarkdown

SpecText == TextInit /\ [][TextNext]_vars

\* C25: for a text made of plain words joined with **bold**, `code` and
\* [label](url) constructs, stripMarkdown returns the same words with the
\* markers removed and each link replaced by its label.
C25_MarkersRemoved ==
    markdown.done => markdown.output = wordsText(markdown.tokens)

\* "**ab** b `ba` b [a b](ba)" has become "ab b ba b a b".
C25_Witness ==
    /\ markdown.done
    /\ markdown.input = writtenText(<<"bold", "plainB", "code", "plainB", "link">>)
    /\ markdown.output =
         <<"a", "b", " ", "b", " ", "b", "a", " ", "b", " ", "a", " ", "b">>

\* ------------------------------ the activity decisions and the summary view

OnSummary == route = "/summary"

\* Titles a user types into the draft of an activity.
TitleArgs == {"a", "b"}

\* saveAction: without a stepId nothing is sent; otherwise createAction is
\* awaited, with the stepId and recommendationId of the view.
SaveAction(v, op, id, type) ==
    /\ v.stepId # NullId => Len(inflight) < MaxInFlight
    /\ inflight' =
         IF v.stepId = NullId THEN inflight
         ELSE Append(inflight,
                Task(op, "createAction", store.sessionId,
                     [step_id |-> v.stepId, recommendation_id |-> v.recommendationId,
                      action_type |-> type, comment |-> id]))

\* A button of an activity that leaves the store alone.
Decide(v, op, id, type) ==
    /\ activityView' = v
    /\ SaveAction(v, op, id, type)
    /\ previous' = Snapshot
    /\ lastOp' = op
    /\ lastReply' = NoReply
    /\ UNCHANGED <<store, server, route, contextView, analysisView, generated, objects,
                   summaryView, markdown>>

\* The activities whose Accept, Edit, Reject and Regenerate buttons are rendered.
Shown == { k \in 1..Len(activityView.activities) :
             activityView.activities[k].status # "editing" }

\* The activities whose Save and Cancel buttons are rendered.
Editing == { k \in 1..Len(activityView.activities) :
               activityView.activities[k].status = "editing" }

AcceptActivity ==
    \E k \in Shown :
        /\ OnActivity
        /\ activityView.activities[k].status # "accepted"
        /\ Decide(acceptActivity(activityView, k - 1), "acceptActivity", k - 1, "accept")

RejectActivity ==
    \E k \in Shown :
        /\ OnActivity
        /\ activityView.activities[k].status # "rejected"
        /\ Decide(rejectActivity(activityView, k - 1), "rejectActivity", k - 1, "reject")

RegenerateActivity ==
    \E k \in Shown :
        /\ OnActivity
        /\ Decide(activityView, "regenerateActivity", k - 1, "regenerate")

EditActivity ==
    \E k \in Shown :
        /\ OnActivity
        /\ activityView' = editActivity(activityView, k - 1)
        /\ previous' = Snapshot
        /\ lastOp' = "editActivity"
        /\ lastReply' = NoReply
        /\ UNCHANGED <<store, server, route, contextView, analysisView, inflight,
                       generated, objects, summaryView, markdown>>

\* The user types in the title input of an activity being edited.
EditActivityDraft ==
    \E k \in Editing, title \in TitleArgs :
        /\ OnActivity
        /\ title # activityView.activities[k].draft.title
        /\ activityView' = [activityView EXCEPT !.activities[k].draft.title = title]
        /\ previous' = Snapshot
        /\ lastOp' = "editActivityDraft"
        /\ lastReply' = NoReply
        /\ UNCHANGED <<store, server, route, contextView, analysisView, inflight,
                       generated, objects, summaryView, markdown>>

SaveEdits ==
    \E k \in Editing :
        LET v == saveEdits(activityView, k - 1) IN
        /\ OnActivity
        /\ activityView' = v
        /\ store' = setActivitySuggestions(store, withoutViewFields(v.activities))
        /\ SaveAction(v, "saveEdits", k - 1, "edit")
        /\ previous' = Snapshot
        /\ lastOp' = "saveEdits"
        /\ lastReply' = NoReply
        /\ UNCHANGED <<server, route, contextView, analysisView, generated, objects,
                       summaryView, markdown>>

CancelEdits ==
    \E k \in Editing :
        /\ OnActivity
        /\ activityView' = cancelEdits(activityView, k - 1)
        /\ previous' = Snapshot
        /\ lastOp' = "cancelEdits"
        /\ lastReply' = NoReply
        /\ UNCHANGED <<store, server, route, contextView, analysisView, inflight,
                       generated, objects, summaryView, markdown>>

\* createAction of saveAction settles: a failure is logged and nothing else.
SaveActionSettled ==
    \E i \in 1..Len(inflight), outcome \in {"resolved", "rejected"} :
        /\ inflight[i].op \in DecisionOps
        /\ inflight' = Remove(inflight, i)
        /\ previous' = Snapshot
        /\ lastOp' = "saveAction:" \o outcome
        /\ lastReply' = NoReply
        /\ UNCHANGED <<store, server, route, contextView, analysisView, activityView,
                       generated, objects, summaryView, markdown>>

GenerateOnce == GenerateSuggestionsWithin(MaxInFlight, Cardinality(ServerStepIds))

\* onMounted of the summary view with an active session: loadExportData up to
\* its await, or to its early return.
mountSummaryView(s) ==
    [InitialSummaryView EXCEPT !.isLoadingData = s.sessionId # NullId]

\* The summary view is mounted on a route change.
EnterSummary(tasks) ==
    /\ route' = "/summary"
    /\ summaryView' = mountSummaryView(store)
    /\ inflight' =
         IF store.sessionId = NullId THEN tasks
         ELSE Append(tasks, Task("loadExportData", "exportSession", store.sessionId, <<>>))

\* proceedToSummary of the activity view.
ProceedToSummary ==
    /\ OnActivity
    /\ hasActiveSession(store)
    /\ Len(inflight) < MaxInFlight
    /\ store' = setCurrentPhase(store, "summary")
    /\ EnterSummary(Unmounted(inflight, ActivityOps, contextView, analysisView))
    /\ activityView' = InitialActivityView
    /\ previous' = Snapshot
    /\ lastOp' = "proceedToSummary"
    /\ lastReply' = NoReply
    /\ UNCHANGED <<server, contextView, analysisView, generated, objects, markdown>>

\* Back to Activities of the summary view.
BackToActivities ==
    /\ OnSummary
    /\ route' = "/activity-suggestion"
    /\ inflight' = Unmounted(inflight, SummaryOps, contextView, analysisView)
    /\ summaryView' = InitialSummaryView
    /\ activityView' = mountActivityView
    /\ previous' = Snapshot
    /\ lastOp' = "navigate:/activity-suggestion"
    /\ lastReply' = NoReply
    /\ UNCHANGED <<store, server, contextView, analysisView, generated, objects, markdown>>

\* exportSession of loadExportData settles: a failure is logged and nothing else.
ExportDataSettled ==
    \E i \in 1..Len(inflight), outcome \in {"resolved", "rejected"} :
      LET task == inflight[i] IN
      /\ task.op = "loadExportData"
      /\ summaryView' =
            IF ~task.live THEN summaryView
            ELSE [summaryView EXCEPT
                    !.exportData = IF outcome = "resolved" THEN [session_id |-> task.sid]
                                   ELSE @,
                    !.isLoadingData = FALSE]
      /\ inflight' = Remove(inflight, i)
      /\ previous' = Snapshot
      /\ lastOp' = "loadExportData:" \o outcome
      /\ lastReply' = NoReply
      /\ UNCHANGED <<store, server, route, contextView, analysisView, activityView,
                     generated, objects, markdown>>

\* The Export Word and Export PDF buttons: the handler up to its await.
HandleExportBegin(op) ==
    /\ OnSummary
    /\ ~summaryView.isExporting
    /\ store.sessionId # NullId
    /\ Len(inflight) < MaxInFlight
    /\ summaryView' = [summaryView EXCEPT !.isExporting = TRUE, !.errorMessage = ""]
    /\ inflight' = Append(inflight, Task(op, "downloadSessionExport", store.sessionId, <<>>))
    /\ previous' = Snapshot
    /\ lastOp' = op
    /\ lastReply' = NoReply
    /\ UNCHANGED <<store, server, route, contextView, analysisView, activityView,
                   generated, objects, markdown>>

HandleExport == HandleExportBegin("handleExport")

HandleExportPdf == HandleExportBegin("handleExportPdf")

\* The flag is left set when the download fails.
handleExportCatch_busy(v) == [v EXCEPT !.errorMessage = "Export failed. Please try again."]

handleExportCatch(v) ==
    [v EXCEPT !.errorMessage = "Export failed. Please try again.", !.isExporting = FALSE]

ExportResolved ==
    \E i \in 1..Len(inflight) :
      LET task == inflight[i] IN
      /\ task.op \in {"handleExport", "handleExportPdf"}
      /\ summaryView' = IF task.live THEN [summaryView EXCEPT !.isExporting = FALSE]
                        ELSE summaryView
      /\ inflight' = Remove(inflight, i)
      /\ previous' = Snapshot
      /\ lastOp' = task.op \o ":resolved"
      /\ lastReply' = NoReply
      /\ UNCHANGED <<store, server, route, contextView, analysisView, activityView,
                     generated, objects, markdown>>

ExportRejected ==
    \E i \in 1..Len(inflight) :
      LET task == inflight[i] IN
      /\ task.op \in {"handleExport", "handleExportPdf"}
      /\ summaryView' = IF task.live THEN handleExportCatch(summaryView) ELSE summaryView
      /\ inflight' = Remove(inflight, i)
      /\ previous' = Snapshot
      /\ lastOp' = task.op \o ":rejected"
      /\ lastReply' = NoReply
      /\ UNCHANGED <<store, server, route, contextView, analysisView, activityView,
                     generated, objects, markdown>>

ActivityNext ==
    \/ EditForm
    \/ HandleSubmit
    \/ HandleSubmitResolved
    \/ HandleSubmitRejected
    \/ ProceedToActivities
    \/ LeaveActivity
    \/ ActivityMounted
    \/ GenerateOnce
    \/ GenerateResolved
    \/ GenerateRejected
    \/ AcceptActivity
    \/ RejectActivity
    \/ RegenerateActivity
    \/ EditActivity
    \/ EditActivityDraft
    \/ SaveEdits
    \/ CancelEdits
    \/ SaveActionSettled
    \/ ProceedToSummary
    \/ BackToActivities
    \/ ExportDataSettled
    \/ HandleExport
    \/ HandleExportPdf
    \/ ExportResolved
    \/ ExportRejected
    \/ StartNewSession

SpecActivity == Init /\ [][ActivityNext]_vars

\* C30: editActivity(id) followed by cancelEdits(id) leaves the activity as it
\* was before editing, its status (also a previous 'accepted' or 'rejected')
\* included, with no draft left, the store's activitySuggestions unchanged and
\* no user action recorded.
C30_CancelRestoresActivity ==
    [][(lastOp = "editActivity" /\ lastOp' = "cancelEdits") =>
          /\ activityView'.activities = previous.activities
          /\ store' = store
          /\ inflight' = inflight
      ]_vars

\* C28: every accept, reject, saved edit or regenerate decision on a displayed
\* activity issues exactly one createAction request carrying the step_id of
\* the generation that produced the activity, also for activities displayed
\* again from the store after the user left the activity view and came back.
C28_DecisionIsRecorded ==
    [][lastOp' \in DecisionOps =>
          LET steps == StepsOfPhase(store.designSteps, "activity-suggestion")
              sent == inflight'[Len(inflight')]
          IN  /\ Len(inflight') = Len(inflight) + 1
              /\ sent.pc = "createAction"
              /\ steps # <<>>
              /\ sent.sent.step_id = steps[Len(steps)].id
      ]_vars

\* The operations after which a remote call of a view has failed.
FailedOps ==
    {"handleSubmit:rejected", "generateSuggestions:rejected", "saveAction:rejected",
     "loadExportData:rejected", "handleExport:rejected", "handleExportPdf:rejected"}

\* The error message of the view the handler op belongs to.
MessageOfView(op, cv, av, sv) ==
    IF op \in ContextOps THEN cv.errorMessage
    ELSE IF op \in ActivityOps \cup DecisionOps THEN av.errorMessage
    ELSE sv.errorMessage

\* C21: every remote call issued by a view that fails (session create/update,
\* activity generation, Word/PDF export, export-summary load, user-action
\* recording) leaves a non-empty error message in that view.
C21_FailureShowsMessage ==
    [][\A i \in 1..Len(inflight) :
          (/\ inflight[i].live
           /\ inflight' = Remove(inflight, i)
           /\ lastOp' \in FailedOps) =>
             MessageOfView(inflight[i].op, contextView', activityView', summaryView') # ""
      ]_vars

\* ------------------------------------------- busy flags of the analysis view

\* Invocations of handlers suspended at once, and generations, in this part.
MaxBusyInFlight == 2

BusySteps == 2

\* getLLMStatus of onMounted settles: the status is kept, or the failure is
\* logged and nothing is kept.
LLMStatusSettled ==
    \E status \in LLMStatusArgs \cup {NullObject} :
        /\ OnAnalysis
        /\ analysisView.probing
        /\ analysisView' = IF status = NullObject THEN onMountedCatch(analysisView)
                           ELSE onMountedResolved(analysisView, status)
        /\ previous' = Snapshot
        /\ lastOp' = IF status = NullObject THEN "getLLMStatus:rejected"
                     ELSE "getLLMStatus:resolved"
        /\ lastReply' = NoReply
        /\ UNCHANGED <<store, server, route, contextView, inflight, activityView,
                       generated, objects, summaryView, markdown>>

\* Save while an analysis may be in flight, and the other way round.
SaveWhileBusy == SaveObjectivesWithin(MaxBusyInFlight)

RunWhileBusy == RunAnalysisWithin(MaxBusyInFlight, BusySteps)

\* analyzeObjectives resolves with an analysis or with an unparseable response.
AnalysisReplied == AnalysisResolvedWith(AnalysisArgs \cup MalformedAnalysisArgs)

BusyNext ==
    \/ EditForm
    \/ HandleSubmit
    \/ HandleSubmitResolved
    \/ HandleSubmitRejected
    \/ LLMStatusSettled
    \/ EditDraft
    \/ SaveWhileBusy
    \/ RunWhileBusy
    \/ PersistResolved
    \/ PersistRejected
    \/ CreateActionSettled
    \/ AnalysisSaveResolved
    \/ AnalysisSaveRejected
    \/ AnalysisReplied
    \/ AnalysisRejected

SpecBusy == Init /\ [][BusyNext]_vars

\* C23: a response whose payload carries parse_error gives a visible message
\* in the view that differs from the message of a failed call, for generation
\* and for analysis alike.
C23_ParseErrorIsVisible ==
    [][ /\ ( /\ lastOp' = "runAnalysis:resolved"
             /\ analysisView'.stepId = server'.steps
             /\ analysisView'.analysisResult # NullObject
             /\ analysisView'.analysisResult.parse_error )
           => analysisView'.errorMessage \notin {""} \cup AnalysisErrors
        /\ ( /\ lastOp' = "generateSuggestions:resolved"
             /\ activityView'.stepId = server'.steps
             /\ lastReply' = <<>> )
           => activityView'.errorMessage \notin {""} \cup GenerationErrors ]_vars

\* The steps of runAnalysis and of saveObjectives.
RunOps == {"runAnalysis", "runAnalysis:save:resolved", "runAnalysis:save:rejected",
           "runAnalysis:resolved", "runAnalysis:rejected"}

SaveOps == {"saveObjectives", "persistObjectives:resolved", "createAction:settled",
            "saveObjectives:rejected"}

Unconfigured(v) == v.llmStatus # NullObject /\ ~v.llmStatus.configured

\* C24 as stated: while an analysis is in flight Save is enabled whenever the
\* field is dirty, and while a save is in flight Run Analysis is enabled
\* whenever the draft is non-empty.
C24_FlagsIndependent ==
    OnAnalysis =>
        /\ (analysisView.isAnalyzing /\ isDirty(analysisView))
              => saveEnabled(store, analysisView)
        /\ (analysisView.isSaving /\ hasObjectives(analysisView))
              => runEnabled(analysisView)

\* C24 amended: each of isAnalyzing and isSaving changes only in steps of its
\* own handler; while an analysis is in flight Save can be clicked whenever the
\* field is dirty and no save is in flight, and while a save is in flight Run
\* Analysis can be clicked whenever the draft is non-empty, no analysis is in
\* flight and the LLM is not reported as unconfigured.
C24_FlagsIndependentAmended ==
    /\ [](OnAnalysis =>
            /\ ( /\ analysisView.isAnalyzing
                 /\ isDirty(analysisView)
                 /\ ~analysisView.isSaving )
                  => ENABLED SaveWhileBusy
            /\ ( /\ analysisView.isSaving
                 /\ hasObjectives(analysisView)
                 /\ ~analysisView.isAnalyzing
                 /\ ~Unconfigured(analysisView)
                 /\ server.steps < BusySteps )
                  => ENABLED RunWhileBusy)
    /\ [][ /\ analysisView'.isAnalyzing # analysisView.isAnalyzing
                => lastOp' \in RunOps /\ analysisView'.isSaving = analysisView.isSaving
           /\ analysisView'.isSaving # analysisView.isSaving
                => lastOp' \in SaveOps
                   /\ analysisView'.isAnalyzing = analysisView.isAnalyzing ]_vars

\* A save and an analysis are in flight at once, with the field dirty.
C24_Witness ==
    /\ OnAnalysis
    /\ analysisView.isAnalyzing
    /\ analysisView.isSaving
    /\ isDirty(analysisView)

\* ------------------------------------------------- every call settles

\* The handlers of all four views, one invocation suspended at a time.
FlowNext ==
    \/ ActivityNext
    \/ LLMStatusSettled
    \/ EditDraft
    \/ SaveObjectives
    \/ RunAnalysis
    \/ PersistResolved
    \/ PersistRejected
    \/ CreateActionSettled
    \/ AnalysisSaveResolved
    \/ AnalysisSaveRejected
    \/ AnalysisResolved
    \/ AnalysisRejected

\* Every remote call settles: the promise of each request of a handler is in
\* the end resolved or rejected, and the continuation of the handler then runs.
SpecFlow ==
    /\ Init
    /\ [][FlowNext]_vars
    /\ WF_vars(HandleSubmitResolved \/ HandleSubmitRejected)
    /\ WF_vars(PersistResolved \/ PersistRejected)
    /\ WF_vars(CreateActionSettled)
    /\ WF_vars(AnalysisSaveResolved \/ AnalysisSaveRejected)
    /\ WF_vars(AnalysisResolved \/ AnalysisRejected)
    /\ WF_vars(GenerateResolved \/ GenerateRejected)
    /\ WF_vars(ExportResolved \/ ExportRejected)

\* The steps in which a remote call fails.
RejectedOps ==
    {"handleSubmit:rejected", "runAnalysis:save:rejected", "runAnalysis:rejected",
     "saveObjectives:rejected", "generateSuggestions:rejected",
     "handleExport:rejected", "handleExportPdf:rejected", "unmounted:rejected"}

\* C22: a busy flag that a handler has set is eventually false again once the
\* calls of the handler settle, whether they succeed or fail; and the step in
\* which a call fails issues no request: the failed invocation ends, or, when
\* the save of runAnalysis failed, goes on to its analyzeObjectives call.
C22_FlagsReset ==
    /\ contextView.isSubmitting ~> ~contextView.isSubmitting
    /\ analysisView.isAnalyzing ~> ~analysisView.isAnalyzing
    /\ analysisView.isSaving ~> ~analysisView.isSaving
    /\ activityView.isGenerating ~> ~activityView.isGenerating
    /\ summaryView.isExporting ~> ~summaryView.isExporting
    /\ [][lastOp' \in RejectedOps =>
            \E i \in 1..Len(inflight) :
                \/ inflight' = Remove(inflight, i)
                \/ /\ inflight[i].op = "runAnalysis"
                   /\ inflight[i].pc = "updateSession"
                   /\ Len(inflight') = Len(inflight)
                   /\ inflight'[i].op = "runAnalysis"
                   /\ inflight'[i].pc = "analyzeObjectives"
                   /\ \A j \in 1..Len(inflight) : j # i => inflight'[j] = inflight[j]]_vars

\* A download has failed: the flag is false again, the message is shown and
\* nothing is in flight.
C22_Witness ==
    /\ lastOp \in {"handleExport:rejected", "handleExportPdf:rejected"}
    /\ ~summaryView.isExporting
    /\ summaryView.errorMessage # ""
    /\ inflight = <<>>

====
